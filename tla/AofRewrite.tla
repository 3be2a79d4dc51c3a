----------------------------- MODULE AofRewrite -----------------------------
(***************************************************************************)
(* The background rewrite of the append only file, and CONFIG SET          *)
(* appendonly.  A child writes the dataset as it was at the fork to a      *)
(* temporary file and appends the differences the parent sends through a   *)
(* pipe; the parent appends what was not sent, renames the file over the   *)
(* old one and goes on with the new descriptor.                            *)
(*                                                                         *)
(* A command is a number, the position at which it was executed; it is not *)
(* idempotent, so that a lost, repeated or misdirected one shows.  The log *)
(* is a sequence of records: SELECT, a command, or the snapshot the child  *)
(* writes.  Files are inodes; "name" is the one the kernel finds under     *)
(* aof_filename, "names" those a power loss may leave there.  The times of *)
(* flushing and its short writes are AofFlush's subject: here a flush      *)
(* writes the whole buffer or nothing.  What survives a power loss is kept *)
(* for "always" only: under "everysec" the background service syncs, and a *)
(* rename counts as durable.                                               *)
(*                                                                         *)
(* Assumed of the file system: rename(2) is atomic, also in a power loss,  *)
(* and an fsync(2) of the renamed file makes the rename durable (the       *)
(* server never syncs the directory).                                      *)
(***************************************************************************)
EXTENDS Integers, Sequences, FiniteSets

CONSTANTS
  Dbs,           \* the databases, 0 .. n
  StartDb,       \* the database in which the server starts with command 1
  MaxCmds,       \* bound on the commands executed, with command 1
  Inodes,        \* inodes that can exist at a time
  Policies,      \* values of appendfsync, "always" and "everysec"
  AppendOnly,    \* values of appendonly at start
  MaxToggles,    \* bound on CONFIG SET appendonly
  MaxFaults,     \* bound on the times the disk fills up
  MaxChildFails  \* bound on failed children, forks and renames, but for a full disk

ASSUME DbsAssumption     == {0, StartDb} \subseteq Dbs /\ Dbs \subseteq Nat
ASSUME PolicyAssumption  == Policies # {} /\ Policies \subseteq {"always", "everysec"}
ASSUME BoundsAssumption  == /\ MaxCmds \in Nat \ {0} /\ {MaxToggles, MaxFaults, MaxChildFails} \subseteq Nat
                            /\ AppendOnly # {} /\ AppendOnly \subseteq BOOLEAN
ASSUME InodesAssumption  == Inodes \subseteq Nat /\ 0 \in Inodes

NoFd  == -1     \* aof_fd = -1
Stale == -2     \* a descriptor number that has been closed
NoDb  == -1

VARIABLES
  phase,                 \* the main thread: "loop", in the done handler, or gone
  aof_fsync,             \* the policy, fixed at start
  data, executed,        \* the dataset, and the number of commands executed
  aof_state, aof_fd, aof_buf, aof_selected_db, aof_last_write_status,
  aof_rewrite_scheduled,
  child, snapshot, tmp,  \* the child, the dataset it saw, its file
  child_diff, pipe, rewrite_buf,      \* aof_child_diff, data pipe, aof_rewrite_buf_blocks
  ask, ack, stop_sending,             \* '!' under way in either direction; aof_stop_sending_diff
  files, synced, name, names,         \* inodes, their durable lengths, the directory
  disk_full, faults, toggles, failed,
  acked                  \* history: commands answered while AOF is on, under "always"

main    == <<aof_fsync, data, executed>>
aof     == <<aof_state, aof_fd, aof_buf, aof_selected_db, aof_last_write_status, aof_rewrite_scheduled>>
rewrite == <<child, snapshot, tmp, child_diff, pipe, rewrite_buf, ask, ack, stop_sending>>
disk    == <<files, synced, name, names>>
bounds  == <<disk_full, faults, toggles, failed>>
vars    == <<phase, main, aof, rewrite, disk, bounds, acked>>

\* child: "ok" and "failed" have exited and wait to be reaped.
ChildState == {"none", "writing", "asked", "ok", "failed"}
Phases     == {"loop", "written", "renamed", "exited", "shutdown"}
InLoop     == phase = "loop"
Running    == phase \notin {"exited", "shutdown"}

(***************************************************************************)
(* The log and what loading it gives.  Loading starts in database 0; the   *)
(* snapshot selects every database that is not empty, in order.            *)
(***************************************************************************)
Select(d)   == [type |-> "select", db |-> d]
Cmd(c)      == [type |-> "cmd", cmd |-> c]
Snapshot(s) == [type |-> "snapshot", data |-> s]

EmptyData == [d \in Dbs |-> <<>>]
LastDb(s) == LET used == {d \in Dbs : s[d] # <<>>}
             IN IF used = {} THEN 0 ELSE CHOOSE d \in used : \A e \in used : e <= d

Apply(state, record) ==
  CASE record.type = "select"   -> [state EXCEPT !.db = record.db]
    [] record.type = "cmd"      -> [state EXCEPT !.data[state.db] = Append(@, record.cmd)]
    [] record.type = "snapshot" -> [db |-> LastDb(record.data), data |-> record.data]

After(log) ==
  LET state[n \in 0 .. Len(log)] ==
        IF n = 0 THEN [db |-> 0, data |-> EmptyData] ELSE Apply(state[n - 1], log[n])
  IN state[Len(log)]

Replay(log) == After(log).data

\* What feedAppendOnlyFile appends for command c in database d.
Feed(c, d) == IF d = aof_selected_db THEN <<Cmd(c)>> ELSE <<Select(d), Cmd(c)>>

\* aofRewriteBufferAppend: the blocks are one sequence.
BufferDiff(c, d) == rewrite_buf \o Feed(c, d)

\* The dataset was loaded from the AOF or, when it is off, from the RDB file.
Init ==
  /\ phase = "loop"
  /\ data = [EmptyData EXCEPT ![StartDb] = <<1>>] /\ executed = 1
  /\ aof_fsync \in Policies
  /\ \E on \in AppendOnly : /\ aof_state = IF on THEN "on" ELSE "off"
                            /\ aof_fd = IF on THEN 0 ELSE NoFd
  /\ aof_buf = <<>> /\ aof_selected_db = NoDb
  /\ aof_last_write_status = "ok" /\ aof_rewrite_scheduled = FALSE
  /\ child = "none" /\ snapshot = EmptyData /\ tmp = 0
  /\ child_diff = <<>> /\ pipe = <<>> /\ rewrite_buf = <<>>
  /\ ask = FALSE /\ ack = FALSE /\ stop_sending = FALSE
  /\ files = [i \in Inodes |-> IF i = aof_fd THEN <<Select(StartDb), Cmd(1)>> ELSE <<>>]
  /\ synced = [i \in Inodes |-> Len(files[i])]
  /\ name = 0 /\ names = {0}
  /\ disk_full = FALSE /\ faults = 0 /\ toggles = 0 /\ failed = 0
  /\ acked = 0

-----------------------------------------------------------------------------
(***************************************************************************)
(* Commands: call, propagate and feedAppendOnlyFile.  processCommand       *)
(* refuses writes after an error.                                          *)
(***************************************************************************)
Command(d) ==
  /\ InLoop
  /\ executed < MaxCmds
  /\ aof_last_write_status = "ok"
  /\ executed' = executed + 1
  /\ data' = [data EXCEPT ![d] = Append(@, executed + 1)]
  /\ IF aof_state = "off"
     THEN UNCHANGED <<aof_buf, aof_selected_db, rewrite_buf>>
     ELSE /\ aof_selected_db' = d
          /\ aof_buf' = IF aof_state = "on" THEN aof_buf \o Feed(executed + 1, d) ELSE aof_buf
          /\ rewrite_buf' = IF child # "none" THEN BufferDiff(executed + 1, d) ELSE rewrite_buf
  /\ UNCHANGED <<phase, aof_fsync, aof_state, aof_fd, aof_last_write_status, aof_rewrite_scheduled,
                 child, snapshot, tmp, child_diff, pipe, ask, ack, stop_sending, disk, bounds, acked>>

\* flushAppendOnlyFile: write the buffer and, under "always", sync it.
\* Writing to a descriptor that is not open fails.
CanWrite == ~disk_full /\ aof_fd \in Inodes

WriteBuf ==
  /\ CanWrite
  /\ files' = [files EXCEPT ![aof_fd] = @ \o aof_buf]
  /\ aof_buf' = <<>>
  /\ aof_last_write_status' = "ok"

FlushFails ==
  /\ ~CanWrite
  /\ aof_last_write_status' = "err"
  /\ UNCHANGED <<aof_buf, files>>

\* beforeSleep; afterwards the replies may go out.
Flush ==
  /\ InLoop
  /\ aof_buf # <<>>
  /\ \/ /\ WriteBuf
        /\ phase' = phase
        /\ synced' = IF aof_fsync = "always"
                     THEN [synced EXCEPT ![aof_fd] = Len(files'[aof_fd])] ELSE synced
     \/ /\ FlushFails
        /\ phase' = IF aof_fsync = "always" THEN "exited" ELSE phase
        /\ UNCHANGED synced
  /\ UNCHANGED <<main, aof_state, aof_fd, aof_selected_db, aof_rewrite_scheduled, rewrite,
                 name, names, bounds, acked>>

Reply ==
  /\ InLoop
  /\ aof_fsync = "always" /\ aof_state = "on" /\ aof_buf = <<>>
  /\ acked' = executed
  /\ UNCHANGED <<phase, main, aof, rewrite, disk, bounds>>

-----------------------------------------------------------------------------
(***************************************************************************)
(* rewriteAppendOnlyFileBackground: pipes, fork, and a SELECT forced into  *)
(* the differences.  The state of the caller changes in "then".            *)
(***************************************************************************)
\* An inode that nobody refers to is gone with its contents.
Free == Inodes \ ({aof_fd} \cup names)

\* Fault: no SELECT is forced.
Fork_KeepsDb ==
  /\ child = "none"
  /\ Free # {}
  /\ child' = "writing"
  /\ snapshot' = data
  /\ tmp' = CHOOSE i \in Free : \A j \in Free : i <= j
  /\ files' = [i \in Inodes |-> IF i \in Free THEN <<>> ELSE files[i]]
  /\ synced' = [i \in Inodes |-> IF i \in Free THEN 0 ELSE synced[i]]
  /\ child_diff' = <<>> /\ pipe' = <<>>
  /\ ask' = FALSE /\ ack' = FALSE /\ stop_sending' = FALSE
  /\ aof_rewrite_scheduled' = FALSE
  /\ UNCHANGED <<aof_selected_db, rewrite_buf, failed>>

Fork ==
  /\ child = "none"
  /\ Free # {}
  /\ child' = "writing"
  /\ snapshot' = data
  /\ tmp' = CHOOSE i \in Free : \A j \in Free : i <= j
  /\ files' = [i \in Inodes |-> IF i \in Free THEN <<>> ELSE files[i]]
  /\ synced' = [i \in Inodes |-> IF i \in Free THEN 0 ELSE synced[i]]
  /\ child_diff' = <<>> /\ pipe' = <<>>
  /\ ask' = FALSE /\ ack' = FALSE /\ stop_sending' = FALSE
  /\ aof_rewrite_scheduled' = FALSE
  /\ aof_selected_db' = NoDb
  /\ UNCHANGED <<rewrite_buf, failed>>

\* A pipe or a fork fails.
ForkFails ==
  /\ child = "none" /\ failed < MaxChildFails
  /\ failed' = failed + 1
  /\ UNCHANGED <<rewrite, files, synced, aof_rewrite_scheduled, aof_selected_db>>

\* BGREWRITEAOF, the growth of the file, or serverCron for a scheduled rewrite.
RewriteStart ==
  /\ InLoop
  /\ Fork \/ ForkFails
  /\ UNCHANGED <<phase, main, aof_state, aof_fd, aof_buf, aof_last_write_status,
                 name, names, disk_full, faults, toggles, acked>>

\* BGREWRITEAOF while an RDB child runs.
RewriteSchedule ==
  /\ InLoop
  /\ child = "none" /\ ~aof_rewrite_scheduled
  /\ aof_rewrite_scheduled' = TRUE
  /\ UNCHANGED <<phase, main, aof_state, aof_fd, aof_buf, aof_selected_db, aof_last_write_status,
                 rewrite, disk, bounds, acked>>

(***************************************************************************)
(* The differences: aofChildWriteDiffData and aofChildPipeReadable in the  *)
(* parent, rewriteAppendOnlyFile in the child.                             *)
(***************************************************************************)
SendDiff ==
  /\ InLoop
  /\ child # "none" /\ ~stop_sending
  /\ \E n \in 1 .. Len(rewrite_buf) :
       /\ pipe' = pipe \o SubSeq(rewrite_buf, 1, n)
       /\ rewrite_buf' = SubSeq(rewrite_buf, n + 1, Len(rewrite_buf))
  /\ UNCHANGED <<phase, main, aof, child, snapshot, tmp, child_diff, ask, ack, stop_sending,
                 disk, bounds, acked>>

StopSending ==
  /\ InLoop
  /\ child # "none" /\ ask
  /\ ask' = FALSE
  /\ stop_sending' = TRUE
  /\ ack' = TRUE
  /\ UNCHANGED <<phase, main, aof, child, snapshot, tmp, child_diff, pipe, rewrite_buf,
                 disk, bounds, acked>>

ChildReads ==
  /\ Running
  /\ child = "writing" /\ pipe # <<>>
  /\ child_diff' = child_diff \o pipe
  /\ pipe' = <<>>
  /\ UNCHANGED <<phase, main, aof, child, snapshot, tmp, rewrite_buf, ask, ack, stop_sending,
                 disk, bounds, acked>>

ChildAsks ==
  /\ Running
  /\ child = "writing"
  /\ child' = "asked"
  /\ ask' = TRUE
  /\ UNCHANGED <<phase, main, aof, snapshot, tmp, child_diff, pipe, rewrite_buf, ack, stop_sending,
                 disk, bounds, acked>>

\* With the acknowledgement, the last read of the pipe, the differences
\* concatenated, fsync, rename to the name the parent expects, exit(0).
ChildFinishes ==
  /\ Running
  /\ child = "asked" /\ ack /\ ~disk_full
  /\ child' = "ok"
  /\ ack' = FALSE
  /\ child_diff' = child_diff \o pipe
  /\ pipe' = <<>>
  /\ files' = [files EXCEPT ![tmp] = <<Snapshot(snapshot)>> \o child_diff']
  /\ synced' = [synced EXCEPT ![tmp] = Len(files'[tmp])]
  /\ UNCHANGED <<phase, main, aof, snapshot, tmp, rewrite_buf, ask, stop_sending,
                 name, names, bounds, acked>>

\* A write error, a missed acknowledgement (5 seconds) or a signal.
ChildFails ==
  /\ Running
  /\ child \in {"writing", "asked"}
  /\ child' = "failed"
  /\ \/ disk_full /\ UNCHANGED failed
     \/ failed < MaxChildFails /\ failed' = failed + 1
  /\ UNCHANGED <<phase, main, aof, snapshot, tmp, child_diff, pipe, rewrite_buf, ask, ack,
                 stop_sending, disk, disk_full, faults, toggles, acked>>

-----------------------------------------------------------------------------
(***************************************************************************)
(* backgroundRewriteDoneHandler, one step per system call that a power     *)
(* loss may come before.  "state" is aof_state after the handler: it       *)
(* schedules another rewrite if AOF still waits for one.                   *)
(***************************************************************************)

EndChild ==
  /\ child' = "none" /\ child_diff' = <<>> /\ pipe' = <<>> /\ rewrite_buf' = <<>>
  /\ ask' = FALSE /\ ack' = FALSE
  /\ snapshot' = EmptyData /\ tmp' = 0
  /\ UNCHANGED stop_sending

\* Fault: nobody tries again.
Cleanup_Once(state) ==
  /\ phase' = "loop"
  /\ aof_state' = state
  /\ EndChild
  /\ UNCHANGED aof_rewrite_scheduled

Cleanup(state) ==
  /\ phase' = "loop"
  /\ aof_state' = state
  /\ aof_rewrite_scheduled' = (aof_rewrite_scheduled \/ state = "wait")
  /\ EndChild

\* The child failed, the residual differences do not fit, the temporary file
\* cannot be opened or renamed.
DoneFailed ==
  /\ \/ InLoop /\ child = "failed" /\ UNCHANGED failed
     \/ InLoop /\ child = "ok" /\ disk_full /\ rewrite_buf # <<>> /\ UNCHANGED failed
     \/ phase = "written" /\ failed < MaxChildFails /\ failed' = failed + 1
  /\ Cleanup(aof_state)
  /\ UNCHANGED <<main, aof_fd, aof_buf, aof_selected_db, aof_last_write_status, disk,
                 disk_full, faults, toggles, acked>>

\* aofRewriteBufferWrite: what was not sent through the pipe.
WriteResidue ==
  /\ disk_full => rewrite_buf = <<>>
  /\ files' = [files EXCEPT ![tmp] = @ \o rewrite_buf]

DoneWrite ==
  /\ InLoop
  /\ child = "ok"
  /\ WriteResidue
  /\ phase' = "written"
  /\ UNCHANGED <<main, aof, rewrite, synced, name, names, bounds, acked>>

DoneRename ==
  /\ phase = "written"
  /\ name' = tmp
  /\ names' = IF aof_fsync = "always" THEN names \cup {tmp} ELSE {tmp}
  /\ phase' = "renamed"
  /\ UNCHANGED <<main, aof, rewrite, files, synced, bounds, acked>>

\* Faults: aof_buf, which the new file already has, is kept; the new file is
\* not synced.
SwitchFd_KeepsBuffer ==
  /\ aof_fd' = tmp
  /\ aof_selected_db' = NoDb
  /\ synced' = IF aof_fsync = "always" THEN [synced EXCEPT ![tmp] = Len(files[tmp])] ELSE synced
  /\ names' = {tmp}
  /\ UNCHANGED aof_buf

SwitchFd_NoSync ==
  /\ aof_fd' = tmp
  /\ aof_selected_db' = NoDb
  /\ aof_buf' = <<>>
  /\ UNCHANGED <<synced, names>>

SwitchFd ==
  /\ aof_fd' = tmp
  /\ aof_selected_db' = NoDb
  /\ aof_buf' = <<>>
  /\ synced' = IF aof_fsync = "always" THEN [synced EXCEPT ![tmp] = Len(files[tmp])] ELSE synced
  /\ names' = {tmp}

\* The descriptor is switched only if aof_fd is not -1.
DoneSwitch ==
  /\ phase = "renamed"
  /\ IF aof_fd = NoFd
     THEN UNCHANGED <<aof_fd, aof_buf, aof_selected_db, synced, names>>
     ELSE SwitchFd
  /\ Cleanup(IF aof_state = "wait" THEN "on" ELSE aof_state)
  /\ UNCHANGED <<main, aof_last_write_status, files, name, bounds, acked>>

-----------------------------------------------------------------------------
(***************************************************************************)
(* CONFIG SET appendonly yes: startAppendOnly.  If no child can be forked  *)
(* the descriptor just opened is closed again.                             *)
(***************************************************************************)
Enable == Fork /\ aof_fd' = name /\ aof_state' = "wait"

StartAppendOnly ==
  /\ InLoop
  /\ aof_state = "off" /\ toggles < MaxToggles
  /\ toggles' = toggles + 1
  /\ \/ Enable
     \/ /\ ForkFails
        /\ aof_fd' = Stale
        /\ UNCHANGED aof_state
     \/ /\ child # "none"
        /\ aof_fd' = Stale
        /\ UNCHANGED <<aof_state, rewrite, files, synced, aof_rewrite_scheduled, aof_selected_db, failed>>
  /\ UNCHANGED <<phase, main, aof_buf, aof_last_write_status, name, names,
                 disk_full, faults, acked>>

\* CONFIG SET appendonly no: stopAppendOnly, with a forced flush, an fsync and
\* the end of a running child.
StopAppendOnly ==
  /\ InLoop
  /\ aof_state # "off" /\ toggles < MaxToggles
  /\ toggles' = toggles + 1
  /\ \/ /\ aof_buf = <<>>
        /\ UNCHANGED <<aof_buf, files, aof_last_write_status>>
     \/ aof_buf # <<>> /\ WriteBuf
     \/ aof_buf # <<>> /\ aof_fsync # "always" /\ FlushFails
  /\ synced' = [synced EXCEPT ![aof_fd] = Len(files'[aof_fd])]
  /\ names' = {name}
  /\ aof_fd' = NoFd
  /\ aof_selected_db' = NoDb
  /\ aof_state' = "off"
  /\ IF child # "none" THEN EndChild ELSE UNCHANGED rewrite
  /\ acked' = 0
  /\ UNCHANGED <<phase, main, aof_rewrite_scheduled, name, disk_full, faults, failed>>

\* prepareForShutdown, without save points.
Shutdown ==
  /\ InLoop
  /\ ~(aof_state = "wait" /\ child # "none")
  /\ phase' = "shutdown"
  /\ synced' = IF aof_state # "off" THEN [synced EXCEPT ![aof_fd] = Len(files[aof_fd])] ELSE synced
  /\ child' = IF aof_state # "off" THEN "none" ELSE child
  /\ UNCHANGED <<main, aof, snapshot, tmp, child_diff, pipe, rewrite_buf, ask, ack, stop_sending,
                 files, name, names, bounds, acked>>

-----------------------------------------------------------------------------
(* The environment: the disk. *)
DiskFills ==
  /\ Running
  /\ ~disk_full /\ faults < MaxFaults
  /\ disk_full' = TRUE
  /\ faults' = faults + 1
  /\ UNCHANGED <<phase, main, aof, rewrite, disk, toggles, failed, acked>>

DiskFreed ==
  /\ Running
  /\ disk_full
  /\ disk_full' = FALSE
  /\ UNCHANGED <<phase, main, aof, rewrite, disk, faults, toggles, failed, acked>>

Next ==
  \/ \E d \in Dbs : Command(d)
  \/ Flush \/ Reply
  \/ RewriteStart \/ RewriteSchedule
  \/ SendDiff \/ StopSending
  \/ ChildReads \/ ChildAsks \/ ChildFinishes \/ ChildFails
  \/ DoneFailed \/ DoneWrite \/ DoneRename \/ DoneSwitch
  \/ StartAppendOnly \/ StopAppendOnly \/ Shutdown
  \/ DiskFills \/ DiskFreed

(***************************************************************************)
(* serverCron starts a scheduled rewrite and reaps the child, the loop     *)
(* flushes and serves the pipes, the child goes on, and a full disk is     *)
(* freed.  Nothing forces a rewrite that nobody scheduled.                 *)
(***************************************************************************)
CronRewrite == aof_rewrite_scheduled /\ RewriteStart

Fairness ==
  /\ WF_vars(Flush)
  /\ WF_vars(CronRewrite)
  /\ WF_vars(StopSending)
  /\ WF_vars(ChildAsks) /\ WF_vars(ChildFinishes)
  /\ WF_vars(DoneFailed) /\ WF_vars(DoneWrite) /\ WF_vars(DoneRename) /\ WF_vars(DoneSwitch)
  /\ WF_vars(DiskFreed)

Safe == Init /\ [][Next]_vars
Spec == Safe /\ Fairness

-----------------------------------------------------------------------------
Records == [type : {"select"}, db : Dbs] \cup [type : {"cmd"}, cmd : 1 .. MaxCmds]
             \cup [type : {"snapshot"}, data : [Dbs -> Seq(1 .. MaxCmds)]]

\* Types; the diff, the pipe and the file hold whole records, and no more is
\* acknowledged than was executed.
TypeOK ==
  /\ phase \in Phases /\ aof_fsync \in Policies
  /\ data \in [Dbs -> Seq(1 .. MaxCmds)] /\ executed \in 0 .. MaxCmds
  /\ aof_state \in {"off", "wait", "on"}
  /\ aof_fd \in Inodes \cup {NoFd, Stale}
  /\ aof_selected_db \in Dbs \cup {NoDb}
  /\ {aof_buf, child_diff, pipe, rewrite_buf} \subseteq Seq(Records)
  /\ aof_last_write_status \in {"ok", "err"} /\ aof_rewrite_scheduled \in BOOLEAN
  /\ child \in ChildState /\ snapshot \in [Dbs -> Seq(1 .. MaxCmds)] /\ tmp \in Inodes
  /\ {ask, ack, stop_sending, disk_full} \subseteq BOOLEAN
  /\ files \in [Inodes -> Seq(Records)] /\ synced \in [Inodes -> Nat]
  /\ name \in names /\ names \subseteq Inodes
  /\ acked \in 0 .. executed

(***************************************************************************)
(* While AOF is on, the current file followed by aof_buf replays to the    *)
(* dataset, every command in the database it was executed in, across any   *)
(* number of rewrites, failed children, errors and switches of the AOF.    *)
(* When the file under the name is already another one, between the rename *)
(* and the switch of the descriptor, it has all of it: a crash loses no    *)
(* more than what was in aof_buf.                                          *)
(***************************************************************************)
LogReplays ==
  aof_state = "on" /\ phase # "exited" =>
    /\ Replay(files[aof_fd] \o aof_buf) = data
    /\ name # aof_fd => Replay(files[name]) = data

(***************************************************************************)
(* While a child works for an AOF that is not off, what it has, what is in *)
(* the pipe and what the parent keeps replay, in this order, to the        *)
(* dataset: no difference is lost or duplicated around the handshake that  *)
(* ends the sending.                                                       *)
(***************************************************************************)
RewriteReplays ==
  aof_state # "off" =>
    /\ child \in {"writing", "asked"} =>
         Replay(<<Snapshot(snapshot)>> \o child_diff \o pipe \o rewrite_buf) = data
    /\ child = "ok" /\ phase = "loop" => Replay(files[tmp] \o rewrite_buf) = data

\* The commands that loading finds after a power loss leaves the inode i.
CmdsIn(state) == UNION {{state[d][k] : k \in 1 .. Len(state[d])} : d \in Dbs}
Survivors(i)  == CmdsIn(Replay(SubSeq(files[i], 1, synced[i])))

(***************************************************************************)
(* Under "always" a power loss keeps every acknowledged command, whatever  *)
(* inode it leaves under the name, but for the moment between the rename   *)
(* and the fsync of the new file.                                          *)
(***************************************************************************)
AckedSurvives ==
  aof_fsync = "always" /\ aof_state = "on" /\ phase # "renamed" =>
    \A i \in names : 1 .. acked \subseteq Survivors(i)

(***************************************************************************)
(* The invariant behind the three.  A log that yields the dataset also     *)
(* leaves loading in the database that feedAppendOnlyFile remembers, if it *)
(* remembers one: else the next command would be appended without the      *)
(* SELECT it needs.  The file that is being written to, the one that is    *)
(* being made and the one the name leads to are told apart.                *)
(***************************************************************************)
Yields(log) == /\ Replay(log) = data
               /\ aof_selected_db # NoDb => After(log).db = aof_selected_db

DirInv ==
  /\ phase \in {"written", "renamed"} => child = "ok"
  /\ InLoop /\ child = "none" => rewrite_buf = <<>>
  /\ ack \/ child = "ok" => stop_sending
  /\ child # "none" /\ phase # "renamed" => tmp \notin names \cup {aof_fd}
  /\ phase = "renamed" => name = tmp /\ tmp # aof_fd
  /\ aof_state # "off" => aof_fd \in Inodes /\ (phase # "renamed" => aof_fd = name)
  /\ aof_state = "on" /\ phase # "renamed" => names = {name}

LogInv == aof_state = "on" => Yields(files[aof_fd] \o aof_buf)

ChildInv ==
  aof_state # "off" =>
    /\ child \in {"writing", "asked"} =>
         Yields(<<Snapshot(snapshot)>> \o child_diff \o pipe \o rewrite_buf)
    /\ child = "ok" /\ phase = "loop" => Yields(files[tmp] \o rewrite_buf)
    /\ phase \in {"written", "renamed"} => Yields(files[tmp])

AckInv ==
  /\ 1 .. executed \subseteq CmdsIn(data)
  /\ acked > 0 => aof_fsync = "always" /\ aof_state = "on"
  /\ aof_fsync = "always" /\ aof_state = "on" =>
       synced[aof_fd] = Len(files[aof_fd]) /\ 1 .. acked \subseteq CmdsIn(Replay(files[aof_fd]))

RewriteInv == TypeOK /\ DirInv /\ LogInv /\ ChildInv /\ AckInv

(***************************************************************************)
(* CONFIG SET appendonly yes takes effect: AOF does not wait for ever for  *)
(* its first file, a failed child or fork is followed by another.          *)
(***************************************************************************)
SwitchesOn == aof_state = "wait" ~> (aof_state # "wait" \/ ~Running)

-----------------------------------------------------------------------------
(* What comments say, and the code does not do. *)

(***************************************************************************)
(* "If we have AOF enabled but haven't written the AOF yet, don't shutdown *)
(* or else the dataset will be lost" (redis.c:2362).                       *)
(***************************************************************************)
NoShutdownBeforeFirstFile == phase = "shutdown" => aof_state # "wait"

(***************************************************************************)
(* "Stop accepting writes as long as the error condition is not cleared"   *)
(* (aof.c:381): once the disk is freed for good writes are accepted again. *)
(***************************************************************************)
WritesResume == aof_last_write_status = "err" ~> (aof_last_write_status = "ok" \/ ~Running)
=============================================================================
