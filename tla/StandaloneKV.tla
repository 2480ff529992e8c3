---------------------------- MODULE StandaloneKV ----------------------------
(***************************************************************************)
(* The key/value store of the standalone services module                    *)
(* (runtime/services/standalone/kv.go and persist.go): a map in memory      *)
(* under one mutex, with versions, and a flusher that writes the namespaces *)
(* that changed to a directory, one file each, by a temporary file that is  *)
(* renamed over the old one.                                                *)
(*                                                                          *)
(* A namespace is modelled by one key.  What it holds is its version, 0     *)
(* when the key is absent, and the number of the change that made it so.  A *)
(* file that is not there holds version 0.  maybe is the file system: every *)
(* state a file may be found in after a power loss.  A process that dies    *)
(* loses only its memory.                                                   *)
(***************************************************************************)
EXTENDS Naturals

CONSTANTS
    Namespaces,
    Persistent,     \* those that are neither volatile nor secret
    NoNamespace,
    MaxChanges,     \* how many times a namespace is written or deleted
    MaxFailures,    \* how many file operations, and loads of files, fail
    MaxCrashes      \* how many times the process dies, by itself or with the machine

ASSUME StandaloneKVAssumption ==
    /\ Persistent \subseteq Namespaces /\ NoNamespace \notin Namespaces
    /\ {MaxChanges, MaxFailures, MaxCrashes} \subseteq Nat

VARIABLES
    mem,        \* store.ns
    dirty,      \* store.dirty
    wake,       \* store.wake has its one nudge
    flusher,    \* where the flusher is, or close when the flusher is gone
    pending,    \* the copies flush has still to write
    renamed,    \* the namespace whose file is in place and whose directory is not synced
    phase,      \* "open", "closing" (done is closed), "last" (close's own flush), "closed"
    visible,    \* the files, as the file system shows them
    maybe,      \* the files, as a power loss may leave them
    dirSync,    \* whether this file system syncs directories
    changes, failures, crashes,
    flushed,    \* what snapshot.write last wrote of each namespace and reported as written
    skipped     \* the namespaces whose file load skipped and that have not changed since

entries == <<mem, dirty, wake>>
files == <<visible, maybe, dirSync>>
flushing == <<flusher, pending, renamed>>
vars == <<entries, flushing, phase, files, changes, failures, crashes, flushed, skipped>>

Entry == [ver : Nat, at : Nat]
Absent == [ver |-> 0, at |-> 0]

Init ==
    /\ mem = [n \in Namespaces |-> Absent] /\ dirty = {} /\ wake = FALSE
    /\ flusher = "wait" /\ pending = {} /\ renamed = NoNamespace
    /\ phase = "open"
    /\ visible = [n \in Namespaces |-> Absent]
    /\ maybe = [n \in Namespaces |-> {Absent}]
    /\ changes = 0 /\ failures = 0 /\ crashes = 0
    /\ flushed = [n \in Namespaces |-> Absent]
    /\ dirSync \in BOOLEAN /\ skipped = {}

----------------------------------------------------------------------------
(* The store, as the runtime uses it *)

\* Mutant of Touch: volatile and secret namespaces are written too.
TouchAny(n) == dirty' = dirty \cup {n} /\ wake' = TRUE

\* touch: the namespace needs writing, and the flusher has a nudge.
Touch(n) ==
    IF n \in Persistent THEN dirty' = dirty \cup {n} /\ wake' = TRUE
                        ELSE UNCHANGED <<dirty, wake>>

\* The change of namespace n to version v, under the mutex.
Change(n, v) ==
    /\ changes < MaxChanges
    /\ changes' = changes + 1
    /\ mem' = [mem EXCEPT ![n] = [ver |-> v, at |-> changes + 1]]
    /\ Touch(n)
    /\ skipped' = skipped \ {n}
    /\ UNCHANGED <<flushing, phase, files, failures, crashes, flushed>>

\* write and Delete, when the version the caller names is the entry's.  Otherwise they, and a
\* Delete of what is absent, change nothing.
Set(n) == Change(n, mem[n].ver + 1)
Delete(n) == mem[n].ver # 0 /\ Change(n, 0)

----------------------------------------------------------------------------
(* flusher, flush and close *)

\* The flusher receives the nudge and waits flushDelay.
Wake ==
    /\ flusher = "wait" /\ wake /\ phase \in {"open", "closing"}
    /\ wake' = FALSE
    /\ flusher' = "delay"
    /\ UNCHANGED <<mem, dirty, pending, renamed, phase, files, changes, failures, crashes,
                   flushed, skipped>>

\* flush copies what is dirty under the mutex.
Copy ==
    /\ pending' = {[ns |-> n, to |-> mem[n]] : n \in dirty}
    /\ dirty' = {}
    /\ flusher' = "write"
    /\ UNCHANGED <<mem, wake, renamed, files, changes, failures, crashes, flushed, skipped>>

\* Mutant of Elapse: the delay ends only with the store.
ElapseAtClose == flusher = "delay" /\ phase # "open" /\ Copy /\ UNCHANGED phase

\* The delay is over.
Elapse == flusher = "delay" /\ Copy /\ UNCHANGED phase

\* close: done is closed.
Close ==
    /\ phase = "open"
    /\ phase' = "closing"
    /\ UNCHANGED <<entries, flushing, files, changes, failures, crashes, flushed, skipped>>

\* The flusher has gone, after the flush it may have been in, and close flushes once more.
CloseFlush == phase = "closing" /\ flusher # "write" /\ Copy /\ phase' = "last"

\* The end of a flush.
FlushDone ==
    /\ flusher = "write" /\ pending = {}
    /\ flusher' = "wait"
    /\ phase' = IF phase = "last" THEN "closed" ELSE phase
    /\ UNCHANGED <<entries, pending, renamed, files, changes, failures, crashes, flushed, skipped>>

----------------------------------------------------------------------------
(* snapshot.write *)

\* Mutant of WriteFailed: the namespace is marked again, and nobody is told.
WriteFailedQuietly(p) ==
    /\ failures < MaxFailures
    /\ failures' = failures + 1
    /\ dirty' = dirty \cup {p.ns} /\ UNCHANGED wake
    /\ pending' = pending \ {p} /\ renamed' = NoNamespace
    /\ UNCHANGED <<mem, flusher, phase, files, changes, crashes, flushed, skipped>>

\* A write that fails, before the file is in its place or in the sync of the directory.
WriteFailed(p) ==
    /\ failures < MaxFailures
    /\ failures' = failures + 1
    /\ Touch(p.ns)
    /\ pending' = pending \ {p} /\ renamed' = NoNamespace
    /\ UNCHANGED <<mem, flusher, phase, files, changes, crashes, flushed, skipped>>

\* write returns without an error.
Written(p) ==
    /\ flushed' = [flushed EXCEPT ![p.ns] = p.to]
    /\ pending' = pending \ {p} /\ renamed' = NoNamespace
    /\ UNCHANGED <<entries, flusher, phase, dirSync, changes, failures, crashes, skipped>>

\* The temporary file, synced, is renamed over the old one; or the file of an empty
\* namespace is removed.  The directory is not synced yet.
Rename(p) ==
    /\ renamed = NoNamespace
    /\ p.to.ver # 0 \/ visible[p.ns].ver # 0
    /\ visible' = [visible EXCEPT ![p.ns] = p.to]
    /\ maybe' = [maybe EXCEPT ![p.ns] = @ \cup {p.to}]
    /\ renamed' = p.ns
    /\ UNCHANGED <<entries, flusher, pending, phase, dirSync, changes, failures, crashes,
                   flushed, skipped>>

\* There is no file to remove, and nothing to sync.
NothingToRemove(p) ==
    /\ renamed = NoNamespace
    /\ p.to.ver = 0 /\ visible[p.ns].ver = 0
    /\ visible' = [visible EXCEPT ![p.ns] = p.to]
    /\ maybe' = [maybe EXCEPT ![p.ns] = {IF f.ver = 0 THEN p.to ELSE f : f \in @}]
    /\ Written(p)

\* Mutant of SyncDir: the directory is not synced after the rename.
SkipSyncDir(p) ==
    /\ renamed = p.ns
    /\ Written(p) /\ UNCHANGED files

\* syncDir: what the directory shows is what it keeps.  A file system that does not sync
\* directories answers EINVAL, ENOTSUP or EPERM, which is tolerated: the write is reported
\* as done, and the directory keeps what it may.
SyncDir(p) ==
    /\ renamed = p.ns
    /\ maybe' = IF dirSync THEN [n \in Namespaces |-> {visible[n]}] ELSE maybe
    /\ Written(p) /\ UNCHANGED visible

WriteStep(p) ==
    /\ flusher = "write" /\ renamed \in {NoNamespace, p.ns}
    /\ WriteFailed(p) \/ Rename(p) \/ NothingToRemove(p) \/ SyncDir(p)

----------------------------------------------------------------------------
(* The end of a process, and newStore *)

\* newStore loads the files it finds.  One that cannot be read or decoded is skipped, all of
\* them when the directory cannot be read: those namespaces start empty, and their files stay.
Boot(found) ==
    /\ \E skip \in SUBSET {n \in Persistent : found[n].ver # 0} :
        /\ skip = {} \/ failures < MaxFailures
        /\ failures' = IF skip = {} THEN failures ELSE failures + 1
        /\ mem' = [n \in Namespaces |-> IF n \in Persistent \ skip THEN found[n] ELSE Absent]
        /\ skipped' = skip
    /\ dirty' = {} /\ wake' = FALSE
    /\ flusher' = "wait" /\ pending' = {} /\ renamed' = NoNamespace
    /\ phase' = "open"
    /\ visible' = found
    /\ UNCHANGED <<dirSync, changes>>

\* The runtime is stopped and started again.
Restart == phase = "closed" /\ Boot(visible) /\ UNCHANGED <<maybe, crashes, flushed>>

\* The process dies.
Crash ==
    /\ crashes < MaxCrashes /\ crashes' = crashes + 1
    /\ Boot(visible) /\ UNCHANGED <<maybe, flushed>>

\* The machine dies, and with it what the directory was not synced for.  Where directories
\* are not synced, what was reported as written counts no more.
PowerLoss ==
    /\ crashes < MaxCrashes /\ crashes' = crashes + 1
    /\ \E found \in [Namespaces -> UNION {maybe[n] : n \in Namespaces}] :
          /\ \A n \in Namespaces : found[n] \in maybe[n]
          /\ Boot(found)
          /\ maybe' = [n \in Namespaces |-> {found[n]}]
          /\ flushed' = IF dirSync THEN flushed ELSE found

----------------------------------------------------------------------------

Flush == Wake \/ Elapse \/ CloseFlush \/ FlushDone \/ (\E p \in pending : WriteStep(p))

Next ==
    \/ \E n \in Namespaces : Set(n) \/ Delete(n)
    \/ Flush
    \/ Close \/ Restart \/ Crash \/ PowerLoss

Spec == Init /\ [][Next]_vars

\* The flusher's timer fires and its writes come back; file operations that keep failing are
\* bounded by MaxFailures.
FairSpec == Spec /\ WF_vars(Flush)

----------------------------------------------------------------------------
(* Properties *)

TypeOK ==
    /\ mem \in [Namespaces -> Entry] /\ dirty \subseteq Persistent /\ wake \in BOOLEAN
    /\ flusher \in {"wait", "delay", "write"}
    /\ pending \subseteq [ns : Persistent, to : Entry]
    /\ renamed \in Persistent \cup {NoNamespace}
    /\ phase \in {"open", "closing", "last", "closed"}
    /\ visible \in [Namespaces -> Entry]
    /\ maybe \in [Namespaces -> SUBSET Entry] /\ \A n \in Namespaces : visible[n] \in maybe[n]
    /\ \A n \in Namespaces \ Persistent : visible[n] = Absent
    /\ changes \in 0..MaxChanges /\ failures \in 0..MaxFailures /\ crashes \in 0..MaxCrashes
    /\ flushed \in [Namespaces -> Entry]
    /\ dirSync \in BOOLEAN /\ skipped \subseteq Persistent

\* touch, flusher and close (kv.go:147-149, 189-192): a change that is not in its file is on
\* its way there, in a copy being written or marked dirty with somebody to flush it; a
\* closed store has left unwritten only what failed or came too late, and knows it.  Only a
\* namespace whose file was skipped at the load differs from its file unchanged.
NothingForgotten ==
    \A n \in Persistent : mem[n] # visible[n] =>
        \/ [ns |-> n, to |-> mem[n]] \in pending
        \/ n \in dirty /\ (wake \/ flusher = "delay" \/ phase # "open")
        \/ n \in skipped

\* snapshot.write (persist.go:142-149): once a flush has reported a namespace as written, no
\* restart and no crash of the process brings back an older one, in its file or in memory
\* (save a file that was skipped); nor does a power loss, where the file system syncs
\* directories.  Said of what has a file: the file of an emptied namespace, removed again
\* after a sync that failed, is reported as gone unsynced (persist.go:109-114).
FlushedSurvives ==
    \A n \in Persistent : flushed[n].ver # 0 =>
        /\ n \in skipped \/ mem[n].at >= flushed[n].at
        /\ visible[n].at >= flushed[n].at
        /\ dirSync => \A f \in maybe[n] : f.at >= flushed[n].at

\* flusher: what the store holds reaches its file, unless the store is closed first or the
\* namespace's file is skipped at the next load.
ReachesDisk ==
    \A n \in Persistent :
        mem[n] # visible[n] ~> (mem[n] = visible[n] \/ phase = "closed" \/ n \in skipped)
============================================================================
