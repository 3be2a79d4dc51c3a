------------------------------ MODULE AofFlush ------------------------------
(***************************************************************************)
(* The write path of the append only file: commands executed by the event  *)
(* loop are appended to aof_buf, flushAppendOnlyFile writes the buffer     *)
(* before the loop sleeps and from serverCron, and the fsync policy        *)
(* decides when the file is synced: by the main thread ("always"), by the  *)
(* background service Bio ("everysec") or not at all ("no").               *)
(*                                                                         *)
(* The log is abstracted to positions: the command executed n-th takes the *)
(* Rec positions Rec*(n-1)+1 .. Rec*n, so that a short write may cut a     *)
(* command in two.  aof_buf and the file are sequences of positions.       *)
(*                                                                         *)
(* The clock is the cached server.unixtime, which only serverCron moves.   *)
(* Two times of the code that are only ever compared with it are kept as   *)
(* ages that saturate, so no bound on time is needed:                      *)
(*   postponed  server.unixtime - server.aof_flush_postponed_start, None   *)
(*              for the sentinel 0, at most 2                              *)
(*   fsync_age  server.unixtime - server.aof_last_fsync, at most 1         *)
(***************************************************************************)
EXTENDS Integers, Sequences, FiniteSets

CONSTANTS
  Clients,          \* connections that send write commands
  MaxCmds,          \* bound on the commands executed
  MaxPipeline,      \* unanswered requests a client may have; 1: it waits
  Rec,              \* log positions per command
  Policies,         \* values of appendfsync used
  NoFsyncOnRewrite, \* no-appendfsync-on-rewrite
  FsyncMayFail,     \* fsync(2) of the main thread may fail
  MaxFaults,        \* bound on the times the disk fills up
  MaxRewrites       \* bound on the rewrites of the file that succeed

ASSUME ClientsAssumption   == IsFiniteSet(Clients)
ASSUME MaxCmdsAssumption   == MaxCmds \in Nat
ASSUME PipelineAssumption  == MaxPipeline \in Nat \ {0}
ASSUME RecAssumption       == Rec \in Nat \ {0}
ASSUME PoliciesAssumption  == Policies # {} /\ Policies \subseteq {"always", "everysec", "no"}
ASSUME FlagsAssumption     == NoFsyncOnRewrite \in BOOLEAN /\ FsyncMayFail \in BOOLEAN
ASSUME MaxFaultsAssumption == MaxFaults \in Nat
ASSUME RewritesAssumption  == MaxRewrites \in Nat

None == -1

VARIABLES
  phase,       \* where the main thread is in aeMain / serverCron
  fired,       \* [Clients -> events of this iteration still to be served]
  reply,       \* [Clients -> output buffer]: command numbers, 0 an error
  aof_fsync, aof_buf, postponed, fsync_age,
  aof_last_write_status, aof_current_size,
  file,        \* contents of the AOF as the kernel sees it
  synced,      \* length of the prefix that survives a power loss
  disk_full,   \* write(2) cannot complete
  faults,      \* times the disk has filled up
  bio_pending, \* fsync jobs created and not finished (see Bio)
  fsyncing,    \* length of the file when the running job called fsync
  old_jobs,    \* how many of them, the first, are for a replaced file
  child,       \* an RDB or AOF child is running
  rewriting,   \* commands executed when the AOF child was forked, or None
  rewrites,    \* rewrites that have succeeded
  executed,    \* number of commands executed
  acked,       \* history: commands whose reply was written to the socket
  contract,    \* history: commands executed since the server promises "always"
  waited,      \* history: seconds the oldest data has been in aof_buf when
               \* the loop slept, at most 2; None when it is empty or a
               \* write has failed
  dropped      \* history: a rewrite emptied aof_buf while writes were refused

clients == <<fired, reply>>
aof     == <<aof_buf, postponed, fsync_age, aof_last_write_status, aof_current_size>>
disk    == <<file, synced>>
fault   == <<disk_full, faults>>
bio     == <<fsyncing, old_jobs>>
procs   == <<child, rewriting, rewrites, dropped>>
history == <<executed, acked, contract>>
vars    == <<phase, clients, aof_fsync, aof, disk, fault, bio_pending, bio, procs,
             history, waited>>

\* "exited": write error under "always"; "shutdown": an orderly exit.
Phases  == {"beforeSleep", "poll", "events", "cron", "cronFlush", "cronRetry",
            "exited", "shutdown"}
Running == phase \notin {"exited", "shutdown"}

\* The log positions of the commands m+1 .. n, in order.
Log(m, n) == [i \in 1 .. Rec * (n - m) |-> Rec * m + i]

Smaller(i, j) == IF i < j THEN i ELSE j
Larger(i, j)  == IF i < j THEN j ELSE i

Init ==
  /\ phase = "beforeSleep"
  /\ fired = [c \in Clients |-> {}]
  /\ reply = [c \in Clients |-> <<>>]
  /\ aof_fsync \in Policies
  /\ aof_buf = <<>>
  /\ postponed = None
  /\ fsync_age = 0
  /\ aof_last_write_status = "ok"
  /\ aof_current_size = 0
  /\ file = <<>>
  /\ synced = 0
  /\ disk_full = FALSE
  /\ faults = 0
  /\ bio_pending = 0
  /\ fsyncing = None
  /\ old_jobs = 0
  /\ child = FALSE
  /\ rewriting = None
  /\ rewrites = 0
  /\ executed = 0
  /\ acked = {}
  /\ contract = {}
  /\ waited = None
  /\ dropped = FALSE

-----------------------------------------------------------------------------
(***************************************************************************)
(* flushAppendOnlyFile.  "next" is where the main thread goes on.          *)
(***************************************************************************)
SyncInProgress == aof_fsync = "everysec" /\ bio_pending > 0

\* Fault: the wait has no limit.
MayPostpone_NoLimit(force) == ~force /\ SyncInProgress

\* A flush that is not forced waits for a running fsync, up to 2 seconds.
MayPostpone(force) == ~force /\ SyncInProgress /\ (postponed = None \/ postponed < 2)

\* Fault: each postponement starts the 2 seconds again.
Postpone_Restarts ==
  /\ postponed' = 0
  /\ UNCHANGED <<aof_buf, fsync_age, aof_last_write_status, aof_current_size, disk, bio_pending>>

Postpone ==
  /\ postponed' = IF postponed = None THEN 0 ELSE postponed
  /\ UNCHANGED <<aof_buf, fsync_age, aof_last_write_status, aof_current_size, disk, bio_pending>>

\* Fault: "always" syncs once a second like "everysec".
SkipFsync_OncePerSecond ==
  /\ (NoFsyncOnRewrite /\ child) \/ aof_fsync = "no" \/ fsync_age = 0
  /\ UNCHANGED <<fsync_age, synced, bio_pending>>

\* The end of a successful flush: to fsync or not.
SkipFsync ==
  /\ \/ NoFsyncOnRewrite /\ child
     \/ aof_fsync = "no"
     \/ aof_fsync = "everysec" /\ fsync_age = 0
  /\ UNCHANGED <<fsync_age, synced, bio_pending>>

\* The result of the fsync is not looked at.
FsyncNow(size) ==
  /\ ~(NoFsyncOnRewrite /\ child)
  /\ aof_fsync = "always"
  /\ synced' = size \/ (FsyncMayFail /\ synced' = synced)
  /\ fsync_age' = 0
  /\ UNCHANGED bio_pending

\* aof_background_fsync, unless the last one is still running.
FsyncInBackground ==
  /\ ~(NoFsyncOnRewrite /\ child)
  /\ aof_fsync = "everysec" /\ fsync_age > 0
  /\ bio_pending' = IF SyncInProgress THEN bio_pending ELSE bio_pending + 1
  /\ fsync_age' = 0
  /\ UNCHANGED synced

\* Fault: a successful write does not clear the error.
WriteAll_KeepsError ==
  /\ ~disk_full
  /\ file' = file \o aof_buf
  /\ aof_buf' = <<>>
  /\ postponed' = None
  /\ aof_current_size' = aof_current_size + Len(aof_buf)
  /\ SkipFsync \/ FsyncNow(Len(file')) \/ FsyncInBackground
  /\ UNCHANGED aof_last_write_status

WriteAll ==
  /\ ~disk_full
  /\ file' = file \o aof_buf
  /\ aof_buf' = <<>>
  /\ postponed' = None
  /\ aof_last_write_status' = "ok"
  /\ aof_current_size' = aof_current_size + Len(aof_buf)
  /\ \/ SkipFsync
     \/ FsyncNow(Len(file'))
     \/ FsyncInBackground

\* Faults: the buffer is trimmed although the short write was undone, and the
\* buffer is given up on an error.
WriteShort_AlwaysTrims(n, truncated) ==
  LET written == IF n = None THEN file ELSE file \o SubSeq(aof_buf, 1, n)
      left    == IF truncated THEN SubSeq(written, 1, aof_current_size) ELSE written
      kept    == IF n = None THEN 0 ELSE n
  IN /\ disk_full
     /\ n = None => ~truncated
     /\ file' = left
     /\ synced' = Smaller(synced, Len(left))
     /\ postponed' = None
     /\ aof_last_write_status' = "err"
     /\ aof_current_size' = aof_current_size + kept
     /\ aof_buf' = SubSeq(aof_buf, kept + 1, Len(aof_buf))
     /\ UNCHANGED <<fsync_age, bio_pending>>

\* write(2) failed (None) or wrote only n positions, and ftruncate could or
\* could not cut the file back to aof_current_size.
WriteShort(n, truncated) ==
  LET written == IF n = None THEN file ELSE file \o SubSeq(aof_buf, 1, n)
      left    == IF truncated THEN SubSeq(written, 1, aof_current_size) ELSE written
      kept    == IF n = None \/ truncated THEN 0 ELSE n
  IN /\ disk_full
     /\ n = None => ~truncated
     /\ file' = left
     /\ synced' = Smaller(synced, Len(left))
     /\ postponed' = None
     /\ IF aof_fsync = "always"
        THEN UNCHANGED <<aof_buf, aof_last_write_status, aof_current_size>>
        ELSE /\ aof_last_write_status' = "err"
             /\ aof_current_size' = aof_current_size + kept
             /\ aof_buf' = SubSeq(aof_buf, kept + 1, Len(aof_buf))
     /\ UNCHANGED <<fsync_age, bio_pending>>

Flush(force, next) ==
  \/ /\ aof_buf = <<>>
     /\ phase' = next
     /\ UNCHANGED <<aof, disk, bio_pending>>
  \/ /\ aof_buf # <<>> /\ MayPostpone(force)
     /\ Postpone
     /\ phase' = next
  \/ /\ aof_buf # <<>> /\ ~MayPostpone(force)
     /\ WriteAll
     /\ phase' = next
  \/ /\ aof_buf # <<>> /\ ~MayPostpone(force)
     /\ \E n \in None .. Len(aof_buf) - 1, truncated \in BOOLEAN : WriteShort(n, truncated)
     /\ phase' = IF aof_fsync = "always" THEN "exited" ELSE next

\* A flush was put off, and no write has failed.
Waiting == aof_buf # <<>> /\ aof_last_write_status = "ok"

-----------------------------------------------------------------------------
(***************************************************************************)
(* The event loop (aeMain, aeProcessEvents) and the clients.               *)
(***************************************************************************)
BeforeSleep ==
  /\ phase = "beforeSleep"
  /\ Flush(FALSE, "poll")
  /\ waited' = IF Waiting' THEN Larger(waited, 0) ELSE None
  /\ UNCHANGED <<clients, aof_fsync, fault, bio, procs, history>>

\* aeApiPoll.  A client is readable when it has sent requests, and writable
\* when its output buffer is not empty, that is, sendReplyToClient is
\* installed.  At most MaxCmds commands are ever sent.
Poll ==
  /\ phase = "poll"
  /\ phase' = "events"
  /\ fired' \in [Clients -> SUBSET {"read", "write"}]
  /\ \A c \in Clients : "read" \in fired'[c] => Len(reply[c]) < MaxPipeline
  /\ \A c \in Clients : "write" \in fired'[c] => reply[c] # <<>>
  /\ Cardinality({c \in Clients : "read" \in fired'[c]}) <= MaxCmds - executed
  /\ UNCHANGED <<reply, aof_fsync, aof, disk, fault, bio_pending, bio, procs, history, waited>>

\* readQueryFromClient runs the k requests that have arrived, feeding each to
\* aof_buf, or refuses them when the last write to the AOF failed.
Requests(c) ==
  IF "read" \in fired[c]
  THEN {k \in 1 .. MaxPipeline - Len(reply[c]) :
          executed + k + Cardinality({d \in Clients \ {c} : "read" \in fired[d]}) <= MaxCmds}
  ELSE {0}

Accepted(k) == IF aof_last_write_status = "ok" THEN k ELSE 0

Output(c, k) == reply[c] \o [i \in 1 .. k |-> IF Accepted(k) = 0 THEN 0 ELSE executed + i]

Execute(accepted) ==
  /\ executed' = executed + accepted
  /\ aof_buf' = aof_buf \o Log(executed, executed + accepted)
  /\ contract' = IF aof_fsync = "always" /\ ~(NoFsyncOnRewrite /\ child)
                 THEN contract \cup (executed + 1 .. executed + accepted)
                 ELSE contract

\* sendReplyToClient, which may write a part of the output.
Send(c, output, sent) ==
  /\ acked' = acked \cup ({output[i] : i \in 1 .. sent} \ {0})
  /\ reply' = [reply EXCEPT ![c] = SubSeq(output, sent + 1, Len(output))]

\* One descriptor of the fired set: its read handler runs first and then, in
\* the same iteration, its write handler.
Serve(c) ==
  /\ phase = "events"
  /\ fired[c] # {}
  /\ fired' = [fired EXCEPT ![c] = {}]
  /\ \E k \in Requests(c) :
       /\ Execute(Accepted(k))
       /\ \E sent \in IF "write" \in fired[c] THEN 0 .. Len(Output(c, k)) ELSE {0} :
            Send(c, Output(c, k), sent)
  /\ UNCHANGED <<phase, aof_fsync, postponed, fsync_age, aof_last_write_status,
                 aof_current_size, disk, fault, bio_pending, bio, procs, waited>>

\* The end of the fired set: serverCron runs if its timer is due.
EventsDone ==
  /\ phase = "events"
  /\ fired = [c \in Clients |-> {}]
  /\ phase' \in {"beforeSleep", "cron"}
  /\ UNCHANGED <<clients, aof_fsync, aof, disk, fault, bio_pending, bio, procs, history, waited>>

\* CONFIG SET appendfsync.
ConfigSetFsync(policy) ==
  /\ phase = "events"
  /\ aof_fsync # policy
  /\ aof_fsync' = policy
  /\ contract' = {}
  /\ UNCHANGED <<phase, clients, aof, disk, fault, bio_pending, bio, procs,
                 executed, acked, waited>>

(***************************************************************************)
(* serverCron: refresh the cached time, which may have moved by d seconds  *)
(* (2 for any more), shut down on SIGTERM, then flush what was postponed   *)
(* and, once a second, what could not be written.                          *)
(***************************************************************************)
Aged(age, d, most) == IF age = None THEN None ELSE Smaller(age + d, most)

Cron(d) ==
  /\ phase = "cron"
  /\ phase' = "cronFlush"
  /\ postponed' = Aged(postponed, d, 2)
  /\ waited' = Aged(waited, d, 2)
  /\ fsync_age' = Smaller(fsync_age + d, 1)
  /\ UNCHANGED <<clients, aof_fsync, aof_buf, aof_last_write_status, aof_current_size,
                 disk, fault, bio_pending, bio, procs, history>>

CronFlush ==
  /\ phase = "cronFlush"
  /\ IF postponed # None
     THEN Flush(FALSE, "cronRetry")
     ELSE phase' = "cronRetry" /\ UNCHANGED <<aof, disk, bio_pending>>
  /\ waited' = IF Waiting' THEN waited ELSE None
  /\ UNCHANGED <<clients, aof_fsync, fault, bio, procs, history>>

CronRetry ==
  /\ phase = "cronRetry"
  /\ \/ aof_last_write_status = "err" /\ Flush(FALSE, "beforeSleep")
     \/ phase' = "beforeSleep" /\ UNCHANGED <<aof, disk, bio_pending>>
  /\ waited' = IF Waiting' THEN waited ELSE None
  /\ UNCHANGED <<clients, aof_fsync, fault, bio, procs, history>>

\* prepareForShutdown, for the SHUTDOWN command and for SIGTERM: it syncs the
\* file, and goes on if the final RDB cannot be saved.
Shutdown ==
  /\ phase \in {"events", "cronFlush"}
  /\ synced' = Len(file)
  /\ phase' \in {phase, "shutdown"}
  /\ UNCHANGED <<clients, aof_fsync, aof, file, fault, bio_pending, bio, procs, history, waited>>

-----------------------------------------------------------------------------
(***************************************************************************)
(* The environment: the background fsync, the disk and the children.       *)
(***************************************************************************)
\* A job for a file that a rewrite has replaced syncs nothing of the new one.
BioFsyncStart ==
  /\ Running
  /\ bio_pending > 0 /\ fsyncing = None
  /\ fsyncing' = IF old_jobs > 0 THEN 0 ELSE Len(file)
  /\ UNCHANGED <<phase, clients, aof_fsync, aof, disk, fault, bio_pending, old_jobs, procs,
                 history, waited>>

BioFsyncDone ==
  /\ Running
  /\ fsyncing # None
  /\ synced' = Larger(synced, Smaller(fsyncing, Len(file)))
  /\ fsyncing' = None
  /\ bio_pending' = bio_pending - 1
  /\ old_jobs' = Larger(old_jobs - 1, 0)
  /\ UNCHANGED <<phase, clients, aof_fsync, aof, file, fault, procs, history, waited>>

DiskFills ==
  /\ Running
  /\ ~disk_full /\ faults < MaxFaults
  /\ disk_full' = TRUE
  /\ faults' = faults + 1
  /\ UNCHANGED <<phase, clients, aof_fsync, aof, disk, bio_pending, bio, procs, history, waited>>

DiskFreed ==
  /\ Running
  /\ disk_full
  /\ disk_full' = FALSE
  /\ UNCHANGED <<phase, clients, aof_fsync, aof, disk, faults, bio_pending, bio, procs, history, waited>>

\* BGSAVE and BGREWRITEAOF, by command or from serverCron: the durability of
\* "always" is suspended while a child runs when no-appendfsync-on-rewrite is
\* set.
ChildStart ==
  /\ phase \in {"events", "cronFlush"}
  /\ ~child
  /\ child' = TRUE
  /\ \/ rewriting' = None
     \/ rewrites < MaxRewrites /\ rewriting' = executed
  /\ contract' = IF NoFsyncOnRewrite THEN {} ELSE contract
  /\ UNCHANGED <<phase, clients, aof_fsync, aof, disk, fault, bio_pending, bio, rewrites, dropped,
                 executed, acked, waited>>

\* The end of an RDB child, or of a rewrite of which anything failed.
ChildDone ==
  /\ phase = "cronFlush"
  /\ child
  /\ child' = FALSE
  /\ rewriting' = None
  /\ UNCHANGED <<phase, clients, aof_fsync, aof, disk, fault, bio_pending, bio, rewrites, dropped,
                 history, waited>>

\* The rewritten file, which the child has synced before it ended, takes the
\* place of the old one: what survives a power loss is in both of them until
\* the new one is synced.
SyncNewFile ==
  \/ /\ aof_fsync = "always"
     /\ \/ synced' = Len(file')
        \/ FsyncMayFail /\ synced' = Smaller(synced, Rec * rewriting)
     /\ UNCHANGED bio_pending
  \/ /\ aof_fsync = "everysec"
     /\ synced' = Smaller(synced, Rec * rewriting)
     /\ bio_pending' = bio_pending + 1
  \/ /\ aof_fsync = "no"
     /\ synced' = Smaller(synced, Rec * rewriting)
     /\ UNCHANGED bio_pending

\* backgroundRewriteDoneHandler, all of whose steps succeed (AofRewrite takes
\* them one by one).  The new file has every command executed, so that aof_buf
\* is emptied; the status of the last write, the time of the last fsync and
\* that of the postponed flush stay as they are.
RewriteDone ==
  /\ phase = "cronFlush"
  /\ child /\ rewriting # None
  /\ file' = Log(0, executed)
  /\ aof_current_size' = Len(file')
  /\ SyncNewFile
  /\ aof_buf' = <<>>
  /\ waited' = None
  /\ dropped' = (dropped \/ aof_last_write_status = "err")
  /\ old_jobs' = bio_pending
  /\ fsyncing' = IF fsyncing = None THEN None ELSE 0
  /\ child' = FALSE
  /\ rewriting' = None
  /\ rewrites' = rewrites + 1
  /\ UNCHANGED <<phase, clients, aof_fsync, postponed, fsync_age, aof_last_write_status,
                 fault, history>>

-----------------------------------------------------------------------------
\* The steps with which the main thread goes round the loop.
Loop ==
  \/ BeforeSleep
  \/ Poll
  \/ \E c \in Clients : Serve(c)
  \/ EventsDone
  \/ \E d \in 0 .. 2 : Cron(d)
  \/ CronFlush
  \/ CronRetry

Next ==
  \/ Loop
  \/ \E p \in Policies : ConfigSetFsync(p)
  \/ Shutdown
  \/ BioFsyncStart \/ BioFsyncDone
  \/ DiskFills \/ DiskFreed
  \/ ChildStart \/ ChildDone \/ RewriteDone

(***************************************************************************)
(* The loop runs for ever and time passes: serverCron finds a later second *)
(* again and again.  A full disk is freed at last.  The background fsync   *)
(* may hang; FairBio says that it does not.                                *)
(***************************************************************************)
Fairness ==
  /\ WF_vars(Loop)
  /\ SF_vars(phase = "events" /\ EventsDone /\ phase' = "cron")
  /\ SF_vars(\E d \in 1 .. 2 : Cron(d))
  /\ WF_vars(DiskFreed)

FairBio == WF_vars(BioFsyncStart) /\ WF_vars(BioFsyncDone)

Safe     == Init /\ [][Next]_vars
Spec     == Safe /\ Fairness
SpecFair == Spec /\ FairBio

-----------------------------------------------------------------------------
\* Types and bounds: flushAppendOnlyFile postpones for two seconds at most
\* (aof.c:283-303); a flush adds an fsync job only when none waits for the bio
\* thread, the end of a rewrite does so whether one waits or not (aof.c:1461).
TypeOK ==
  /\ phase \in Phases
  /\ fired \in [Clients -> SUBSET {"read", "write"}]
  /\ reply \in [Clients -> Seq(0 .. MaxCmds)]
  /\ aof_fsync \in Policies
  /\ aof_buf \in Seq(Nat)
  /\ postponed \in None .. 2
  /\ fsync_age \in 0 .. 1
  /\ aof_last_write_status \in {"ok", "err"}
  /\ aof_current_size \in Nat
  /\ file \in Seq(Nat)
  /\ synced \in Nat
  /\ disk_full \in BOOLEAN
  /\ faults \in 0 .. MaxFaults
  /\ bio_pending \in 0 .. 1 + rewrites
  /\ fsyncing \in Nat \cup {None}
  /\ old_jobs \in Nat
  /\ child \in BOOLEAN
  /\ rewriting \in Nat \cup {None}
  /\ rewrites \in Nat
  /\ dropped \in BOOLEAN
  /\ executed \in Nat
  /\ acked \subseteq 1 .. executed
  /\ contract \subseteq 1 .. executed
  /\ waited \in None .. 2

(***************************************************************************)
(* Short writes, failed truncations and trimmed buffers never tear the     *)
(* log: the file followed by aof_buf is exactly the log of the commands    *)
(* executed, nothing missing, repeated or out of order, and                *)
(* aof_current_size, which the next ftruncate(2) cuts to, is the size of   *)
(* the file.  Under "always" a failed write ends the process with at most  *)
(* a torn tail.                                                            *)
(***************************************************************************)
LogExact ==
  /\ file = SubSeq(Log(0, executed), 1, Len(file))
  /\ phase # "exited" =>
       /\ file \o aof_buf = Log(0, executed)
       /\ aof_current_size = Len(file)

\* The log of the command n is in the file, or survives a power loss.
Written(n) == Rec * n <= Len(file)
Durable(n) == Rec * n <= synced

(***************************************************************************)
(* "We have the contract with the user that on acknowledged write data is  *)
(* synced on disk" (aof.c:374): under "always" no reply leaves before the  *)
(* data is durable.                                                        *)
(***************************************************************************)
AckedDurable == aof_fsync = "always" => \A n \in acked \cap contract : Durable(n)

(***************************************************************************)
(* The inductive invariant of the proofs: the log is exact and a job runs  *)
(* only if it is counted; and, of clients that wait for their replies,     *)
(* what is promised is synced as soon as it is written, so that nothing    *)
(* promised is unsynced when the loop sleeps, nor what the replies of the  *)
(* clients found writable are about.                                       *)
(***************************************************************************)
LogInv ==
  /\ TypeOK
  /\ LogExact
  /\ executed <= MaxCmds
  /\ synced <= Len(file)
  /\ \A c \in Clients : reply[c] \in Seq(0 .. executed)
  /\ bio_pending = 0 => fsyncing = None

FiredInv ==
  phase = "events" =>
    \A c \in Clients :
      /\ "read" \in fired[c] => reply[c] = <<>>
      /\ "write" \in fired[c] =>
           /\ reply[c] # <<>>
           /\ \A i \in 1 .. Len(reply[c]) : reply[c][i] \in contract => Durable(reply[c][i])

PromiseInv ==
  /\ aof_fsync # "always" \/ (NoFsyncOnRewrite /\ child) => contract = {}
  /\ phase # "exited" => \A n \in contract : Written(n) => Durable(n)
  /\ phase = "poll" => \A n \in contract : Durable(n)
  /\ \A n \in acked \cap contract : Durable(n)
  /\ FiredInv

IInv == LogInv /\ PromiseInv

(***************************************************************************)
(* A flush is postponed while a background fsync runs, however slow it is, *)
(* but data is never kept back from the kernel for 2 seconds: the          *)
(* sentinel aof_flush_postponed_start is neither lost nor restarted while  *)
(* data waits.                                                             *)
(***************************************************************************)
BoundedDelay ==
  phase = "poll" /\ aof_fsync = "everysec" /\ aof_last_write_status = "ok" => waited < 2

\* What makes BoundedDelay inductive: unless a write has failed, data that
\* has waited is never older than the postponement it waits for.
DelayInv ==
  /\ phase # "exited" /\ aof_last_write_status = "ok" /\ waited # None =>
       postponed # None /\ waited <= postponed
  /\ BoundedDelay

(***************************************************************************)
(* "Set an error to stop accepting writes as long as the error condition   *)
(* is not cleared" (aof.c:380): when the disk is freed writes are accepted *)
(* again, even if the background fsync hangs.  Except after a rewrite that *)
(* succeeds while writes are refused: it empties aof_buf (aof.c:1468), a   *)
(* flush with nothing to write returns before it clears the error          *)
(* (aof.c:278), and no command that writes is accepted to give it data.    *)
(***************************************************************************)
WritesResume == []<>(aof_last_write_status = "ok" \/ ~Running \/ dropped)

(***************************************************************************)
(* Again and again aof_buf is empty, even if the background fsync hangs    *)
(* for ever: with LogExact, every command executed reaches the file.       *)
(***************************************************************************)
BufferDrains == []<>(aof_buf = <<>> \/ ~Running)

-----------------------------------------------------------------------------
(* What comments and the configuration file say, and the code does not do. *)

(***************************************************************************)
(* "The AOF we already have ... contains the full dataset anyway"          *)
(* (redis.c:2359): an orderly shutdown leaves every acknowledged write in  *)
(* the file.                                                               *)
(***************************************************************************)
ShutdownKeepsAcked == phase = "shutdown" => \A n \in acked : Written(n)

(***************************************************************************)
(* "everysec: fsync only one time every second" (redis.conf:523): what was *)
(* written under "everysec" is synced at last.                             *)
(***************************************************************************)
EverysecSyncs ==
  \A n \in 1 .. MaxCmds :
    aof_fsync = "everysec" /\ Written(n) ~> (Durable(n) \/ aof_fsync # "everysec" \/ ~Running)
=============================================================================
