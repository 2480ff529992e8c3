------------------------- MODULE StandaloneKVProofs -------------------------
(***************************************************************************)
(* Proofs about StandaloneKV, for every set of namespaces and every number  *)
(* of changes, failures and crashes.                                        *)
(*                                                                          *)
(* The inductive invariant Inv says of every copy a flush has still to      *)
(* write whether it is stale, and how the copy, the entry in memory and the *)
(* file are ordered in time, and that nothing skipped by a load is written  *)
(* before it changes.                                                       *)
(***************************************************************************)
EXTENDS StandaloneKV, TLAPS

\* The namespace is marked, and somebody will flush it.
Marked(n) == n \in dirty /\ (wake \/ flusher = "delay" \/ phase # "open")

\* The copies of the flush in progress: one of each namespace, and the file that was renamed
\* last is the copy of its namespace.
CopyInv ==
    /\ flusher # "write" => pending = {}
    /\ renamed # NoNamespace => \E p \in pending : p.ns = renamed
    /\ \A p, q \in pending : p.ns = q.ns => p = q
    /\ \A p \in pending : renamed = p.ns => visible[p.ns] = p.to

\* A copy that is not what memory holds is of a namespace that was marked again.
StaleInv == \A p \in pending : p.to # mem[p.ns] => Marked(p.ns)

\* A namespace that is never written has no file.
VolatileInv == \A n \in Namespaces \ Persistent : maybe[n] = {Absent}

\* A namespace whose file was skipped has nothing to write until it changes.
SkipInv == \A n \in skipped : n \notin dirty /\ \A p \in pending : p.ns # n

\* Nothing is from a change that has not happened, and no copy on its way to the disk is
\* older than what was last reported as written.
AgeInv ==
    /\ \A n \in Namespaces : mem[n].at <= changes
    /\ \A n \in Namespaces : \A f \in maybe[n] : f.at <= changes
    /\ \A p \in pending : p.to.at <= mem[p.ns].at
    /\ \A n \in Persistent : flushed[n].at <= changes
    /\ \A p \in pending : flushed[p.ns].ver # 0 => p.to.at >= flushed[p.ns].at

Inv ==
    /\ TypeOK /\ CopyInv /\ StaleInv /\ VolatileInv /\ SkipInv /\ AgeInv
    /\ NothingForgotten /\ FlushedSurvives

----------------------------------------------------------------------------
LEMMA InitInv == Init => Inv
<1> SUFFICES ASSUME Init PROVE Inv
  OBVIOUS
<1>1. Absent \in Entry /\ Absent.ver = 0 /\ Absent.at = 0
  BY DEF Absent, Entry
<1>2. TypeOK
  <2>1. MaxChanges \in Nat /\ MaxFailures \in Nat /\ MaxCrashes \in Nat
    BY StandaloneKVAssumption
  <2>2. /\ mem \in [Namespaces -> Entry] /\ visible \in [Namespaces -> Entry]
        /\ flushed \in [Namespaces -> Entry] /\ maybe \in [Namespaces -> SUBSET Entry]
        /\ \A n \in Namespaces : visible[n] = Absent /\ visible[n] \in maybe[n]
    BY <1>1 DEF Init
  <2>3. changes \in 0..MaxChanges /\ failures \in 0..MaxFailures /\ crashes \in 0..MaxCrashes
    BY <2>1 DEF Init
  <2> QED BY <2>2, <2>3 DEF Init, TypeOK
<1>3. CopyInv /\ StaleInv /\ VolatileInv /\ SkipInv /\ NothingForgotten
  BY <1>1, StandaloneKVAssumption
  DEF Init, CopyInv, StaleInv, VolatileInv, SkipInv, NothingForgotten
<1>4. AgeInv /\ FlushedSurvives
  BY <1>1, StandaloneKVAssumption DEF Init, AgeInv, FlushedSurvives
<1> QED BY <1>2, <1>3, <1>4 DEF Inv

\* A change of one namespace marks it, and is the latest of all.
LEMMA ChangeInv ==
    ASSUME Inv, NEW n \in Namespaces, NEW v \in Nat, Change(n, v)
    PROVE  Inv'
<1> USE DEF Inv
<1> DEFINE e == [ver |-> v, at |-> changes + 1]
<1>1. /\ changes \in Nat /\ changes' = changes + 1 /\ changes < MaxChanges
      /\ e \in Entry /\ e.at = changes + 1
      /\ mem' = [mem EXCEPT ![n] = e] /\ mem'[n] = e
      /\ \A k \in Namespaces \ {n} : mem'[k] = mem[k]
  BY DEF Change, TypeOK, Entry
<1> HIDE DEF e
<1>2. /\ UNCHANGED <<flushing, phase, files, failures, crashes, flushed>>
      /\ dirty \subseteq dirty' /\ dirty' \subseteq Persistent /\ (wake => wake')
      /\ n \in Persistent => n \in dirty' /\ wake'
      /\ wake' \in BOOLEAN /\ dirty' \subseteq dirty \cup {n}
      /\ skipped' = skipped \ {n}
  BY DEF Change, Touch, TypeOK
<1>3. TypeOK'
  BY <1>1, <1>2, StandaloneKVAssumption DEF TypeOK, flushing, files
<1>4. \A k \in Namespaces : Marked(k) => Marked(k)'
  BY <1>2 DEF Marked, flushing
<1>5. n \in Persistent => Marked(n)'
  BY <1>2 DEF Marked
<1>6. \A p \in pending : p.ns \in Persistent /\ p.ns \in Namespaces /\ p.to \in Entry
  BY StandaloneKVAssumption DEF TypeOK
<1>7. CopyInv'
  BY <1>2 DEF CopyInv, flushing, files
<1>8. StaleInv'
  BY <1>1, <1>2, <1>4, <1>5, <1>6 DEF StaleInv, flushing
<1>9. VolatileInv' /\ SkipInv'
  BY <1>2 DEF VolatileInv, SkipInv, flushing, files
<1>10. NothingForgotten'
  BY <1>1, <1>2, <1>4, <1>5, StandaloneKVAssumption
  DEF NothingForgotten, Marked, flushing, files
<1>11. \A k \in Namespaces : mem[k] \in Entry /\ mem[k].at \in Nat
  BY DEF TypeOK, Entry
<1>12. \A k \in Namespaces : \A f \in maybe[k] : f.at \in Nat
  BY DEF TypeOK, Entry
<1>13. \A p \in pending : p.to.at \in Nat
  BY <1>6 DEF Entry
<1>14. \A k \in Namespaces : flushed[k].at \in Nat
  BY DEF TypeOK, Entry
<1>15. \A k \in Namespaces : mem'[k].at <= changes'
  BY <1>1, <1>11 DEF AgeInv
<1>16. \A k \in Namespaces : mem[k].at <= mem'[k].at
  BY <1>1, <1>11 DEF AgeInv
<1>17. \A k \in Namespaces : \A f \in maybe[k] : f.at <= changes'
  BY <1>1, <1>12 DEF AgeInv
<1>18. \A p \in pending : p.to.at <= mem'[p.ns].at
  BY <1>1, <1>6, <1>11, <1>13, <1>16 DEF AgeInv
<1>19. \A k \in Persistent : flushed[k].at <= changes'
  BY <1>1, <1>14, StandaloneKVAssumption DEF AgeInv
<1>20. AgeInv'
  BY <1>2, <1>15, <1>17, <1>18, <1>19 DEF AgeInv, flushing, files
<1>21. \A k \in Persistent : flushed[k].ver # 0 => k \in skipped' \/ mem'[k].at >= flushed[k].at
  <2> SUFFICES ASSUME NEW k \in Persistent, flushed[k].ver # 0, k \notin skipped'
               PROVE  mem'[k].at >= flushed[k].at
    OBVIOUS
  <2>1. CASE k = n
    BY <1>1, <1>14, <2>1, StandaloneKVAssumption DEF AgeInv
  <2>2. CASE k # n
    BY <1>1, <1>2, <1>11, <1>14, <1>16, <2>2, StandaloneKVAssumption DEF FlushedSurvives
  <2> QED BY <2>1, <2>2
<1>22. FlushedSurvives'
  BY <1>2, <1>21 DEF FlushedSurvives, files
<1> QED BY <1>3, <1>7, <1>8, <1>9, <1>10, <1>20, <1>22

\* The kinds of what a flush has in hand, as the lemmas below use them.
LEMMA Kinds ==
    ASSUME TypeOK
    PROVE  /\ \A p \in pending : p.ns \in Persistent /\ p.ns \in Namespaces /\ p.to \in Entry
                                 /\ p.to.at \in Nat /\ p.to.ver \in Nat
           /\ \A n \in Namespaces : /\ mem[n] \in Entry /\ mem[n].at \in Nat
                                    /\ visible[n] \in Entry /\ visible[n] \in maybe[n]
                                    /\ flushed[n] \in Entry /\ flushed[n].at \in Nat
           /\ \A n \in Namespaces : \A f \in maybe[n] : f \in Entry /\ f.at \in Nat
           /\ changes \in Nat
  BY StandaloneKVAssumption DEF TypeOK, Entry

\* A nudge received: the flusher waits out its delay for what is marked.
LEMMA WakeInv == ASSUME Inv, Wake PROVE Inv'
<1> USE DEF Inv
<1>1. TypeOK'
  BY DEF Wake, TypeOK, files
<1>2. CopyInv' /\ VolatileInv' /\ SkipInv' /\ AgeInv' /\ FlushedSurvives'
  BY DEF Wake, CopyInv, VolatileInv, SkipInv, AgeInv, FlushedSurvives, files
<1>3. \A n \in Namespaces : Marked(n) => Marked(n)'
  BY DEF Wake, Marked
<1>4. StaleInv'
  BY <1>3, Kinds DEF Wake, StaleInv
<1>5. NothingForgotten'
  BY <1>3, StandaloneKVAssumption DEF Wake, NothingForgotten, Marked, files
<1> QED BY <1>1, <1>2, <1>4, <1>5

\* A flush copies what is marked: its copies are what memory holds.
LEMMA CopiesInv ==
    ASSUME Inv, Copy, flusher # "write", phase' \in {"open", "closing", "last", "closed"}
    PROVE  Inv'
<1> USE DEF Inv
<1> DEFINE c(n) == [ns |-> n, to |-> mem[n]]
<1>1. /\ pending = {} /\ dirty \subseteq Persistent /\ Persistent \subseteq Namespaces
      /\ pending' = {c(n) : n \in dirty} /\ dirty' = {} /\ flusher' = "write"
      /\ UNCHANGED <<mem, wake, renamed, files, changes, failures, crashes, flushed, skipped>>
  BY StandaloneKVAssumption DEF Copy, CopyInv, TypeOK
<1>2. \A n \in Namespaces : c(n).ns = n /\ c(n).to = mem[n]
  OBVIOUS
<1>3. \A n \in dirty : c(n) \in [ns : Persistent, to : Entry]
  BY <1>1, Kinds
<1>4. \A p \in pending' : p.ns \in dirty /\ p = c(p.ns) /\ p.to = mem[p.ns]
  BY <1>1, <1>2
<1>5. pending' \subseteq [ns : Persistent, to : Entry]
  BY <1>1, <1>3
<1>6. \A n \in dirty : [ns |-> n, to |-> mem[n]] \in pending'
  BY <1>1
<1> HIDE DEF c
<1>7. TypeOK'
  BY <1>1, <1>5 DEF TypeOK, files
<1>8. renamed = NoNamespace
  BY <1>1 DEF CopyInv
<1>9. \A p \in pending' : p.ns # renamed
  BY <1>1, <1>4, <1>8, StandaloneKVAssumption
<1>10. CopyInv'
  BY <1>1, <1>4, <1>8, <1>9 DEF CopyInv
<1>11. StaleInv'
  BY <1>1, <1>4 DEF StaleInv
<1>12. VolatileInv' /\ SkipInv' /\ FlushedSurvives'
  BY <1>1, <1>4 DEF VolatileInv, SkipInv, FlushedSurvives, files
<1>13. AgeInv'
  <2>1. \A p \in pending' : p.to.at <= mem[p.ns].at
    BY <1>1, <1>4, Kinds
  <2>2. \A p \in pending' : flushed[p.ns].ver # 0 => p.to.at >= flushed[p.ns].at
    BY <1>1, <1>4 DEF FlushedSurvives, SkipInv
  <2> QED BY <1>1, <2>1, <2>2 DEF AgeInv, files
<1>14. NothingForgotten'
  BY <1>1, <1>6 DEF NothingForgotten, files
<1> QED BY <1>7, <1>10, <1>11, <1>12, <1>13, <1>14

\* A flush ends with everything it copied written or marked again.
LEMMA FlushDoneInv == ASSUME Inv, FlushDone PROVE Inv'
<1> USE DEF Inv
<1>1. /\ flusher = "write" /\ pending = {} /\ flusher' = "wait"
      /\ phase' \in {"open", "closing", "last", "closed"} /\ (phase # "open" => phase' # "open")
      /\ UNCHANGED <<entries, pending, renamed, files, changes, failures, crashes, flushed,
                     skipped>>
  BY DEF FlushDone, TypeOK
<1>2. TypeOK'
  BY <1>1 DEF TypeOK, entries, files
<1>3. CopyInv' /\ StaleInv' /\ VolatileInv' /\ SkipInv' /\ AgeInv' /\ FlushedSurvives'
  BY <1>1 DEF CopyInv, StaleInv, VolatileInv, SkipInv, AgeInv, FlushedSurvives, entries, files
<1>4. NothingForgotten'
  BY <1>1 DEF NothingForgotten, entries, files
<1> QED BY <1>2, <1>3, <1>4

\* Closing the store loses no mark: close itself flushes.
LEMMA CloseInv == ASSUME Inv, Close PROVE Inv'
<1> USE DEF Inv
<1>1. /\ phase' = "closing"
      /\ UNCHANGED <<entries, flushing, files, changes, failures, crashes, flushed, skipped>>
  BY DEF Close
<1>2. TypeOK'
  BY <1>1 DEF TypeOK, entries, flushing, files
<1>3. CopyInv' /\ StaleInv' /\ VolatileInv' /\ SkipInv' /\ AgeInv' /\ FlushedSurvives'
  BY <1>1 DEF CopyInv, StaleInv, Marked, VolatileInv, SkipInv, AgeInv, FlushedSurvives,
              entries, flushing, files
<1>4. NothingForgotten'
  BY <1>1 DEF NothingForgotten, entries, flushing, files
<1> QED BY <1>2, <1>3, <1>4

\* A write that fails marks its namespace again, with a nudge.
LEMMA WriteFailedInv ==
    ASSUME Inv, NEW p \in pending, renamed \in {NoNamespace, p.ns}, flusher = "write",
           WriteFailed(p)
    PROVE  Inv'
<1> USE DEF Inv
<1>1. /\ p.ns \in Persistent /\ dirty' = dirty \cup {p.ns} /\ wake' = TRUE
      /\ pending' = pending \ {p} /\ renamed' = NoNamespace
      /\ failures < MaxFailures /\ failures' = failures + 1
      /\ UNCHANGED <<mem, flusher, phase, files, changes, crashes, flushed, skipped>>
  BY Kinds DEF WriteFailed, Touch
<1>2. failures' \in 0..MaxFailures
  BY <1>1, StandaloneKVAssumption DEF TypeOK
<1>3. TypeOK'
  BY <1>1, <1>2 DEF TypeOK, files
<1>4. CopyInv'
  <2>1. \A q \in pending' : q.ns # renamed'
    BY <1>1, Kinds, StandaloneKVAssumption
  <2> QED BY <1>1, <2>1 DEF CopyInv, files
<1>5. \A n \in Namespaces : Marked(n) => Marked(n)'
  BY <1>1 DEF Marked
<1>6. Marked(p.ns)'
  BY <1>1 DEF Marked
<1>7. StaleInv'
  BY <1>1, <1>5, Kinds DEF StaleInv
<1>8. VolatileInv' /\ SkipInv' /\ AgeInv' /\ FlushedSurvives'
  BY <1>1 DEF VolatileInv, SkipInv, AgeInv, FlushedSurvives, files
<1>9. NothingForgotten'
  <2> SUFFICES ASSUME NEW n \in Persistent, mem[n] # visible[n]
               PROVE  [ns |-> n, to |-> mem[n]] \in pending' \/ Marked(n)' \/ n \in skipped
    BY <1>1 DEF NothingForgotten, Marked, files
  <2>1. CASE [ns |-> n, to |-> mem[n]] = p
    BY <1>6, <2>1
  <2>2. CASE [ns |-> n, to |-> mem[n]] # p
    BY <1>1, <1>5, <2>2, StandaloneKVAssumption DEF NothingForgotten, Marked
  <2> QED BY <2>1, <2>2
<1> QED BY <1>3, <1>4, <1>7, <1>8, <1>9

\* A rename puts the copy in its place.  What was newer in memory has been marked again.
LEMMA RenameInv ==
    ASSUME Inv, NEW p \in pending, flusher = "write", Rename(p)
    PROVE  Inv'
<1> USE DEF Inv
<1> DEFINE n == p.ns
<1>1. /\ n \in Persistent /\ n \in Namespaces /\ p.to \in Entry /\ p.to.at \in Nat
      /\ renamed' = n
      /\ visible' = [visible EXCEPT ![n] = p.to]
      /\ maybe' = [maybe EXCEPT ![n] = maybe[n] \cup {p.to}]
      /\ UNCHANGED <<entries, flusher, pending, phase, dirSync, changes, failures, crashes,
                     flushed, skipped>>
  BY Kinds DEF Rename
<1>2. /\ visible'[n] = p.to /\ maybe'[n] = maybe[n] \cup {p.to}
      /\ \A k \in Namespaces \ {n} : visible'[k] = visible[k] /\ maybe'[k] = maybe[k]
  BY <1>1 DEF TypeOK
<1>3. visible' \in [Namespaces -> Entry] /\ maybe' \in [Namespaces -> SUBSET Entry]
  BY <1>1 DEF TypeOK
<1>4. TypeOK'
  BY <1>1, <1>2, <1>3 DEF TypeOK, entries
<1>5. CopyInv'
  BY <1>1, <1>2 DEF CopyInv
<1>6. StaleInv' /\ VolatileInv' /\ SkipInv'
  BY <1>1, <1>2 DEF StaleInv, Marked, VolatileInv, SkipInv, entries
<1>7. AgeInv'
  <2>1. p.to.at <= changes
    BY <1>1, Kinds DEF AgeInv
  <2>2. \A k \in Namespaces : \A f \in maybe'[k] : f.at <= changes
    BY <1>2, <2>1 DEF AgeInv
  <2> QED BY <1>1, <2>2 DEF AgeInv, entries
<1>8. FlushedSurvives'
  BY <1>1, <1>2, StandaloneKVAssumption DEF FlushedSurvives, AgeInv, entries
<1>9. NothingForgotten'
  <2>1. mem[n] # p.to => Marked(n)
    BY DEF StaleInv
  <2> QED BY <1>1, <1>2, <2>1, StandaloneKVAssumption DEF NothingForgotten, Marked, entries
<1> QED BY <1>4, <1>5, <1>6, <1>7, <1>8, <1>9

\* What write's return changes: the copy is gone, and what was reported is the copy.
LEMMA WrittenInv ==
    ASSUME Inv, NEW p \in pending, Written(p),
           visible' \in [Namespaces -> Entry], maybe' \in [Namespaces -> SUBSET Entry],
           visible'[p.ns] = p.to,
           \A n \in Namespaces \ {p.ns} : visible'[n] = visible[n],
           \A n \in Namespaces : visible'[n] \in maybe'[n],
           \A n \in Namespaces \ Persistent : maybe'[n] = {Absent},
           \A n \in Namespaces : \A f \in maybe'[n] : f \in maybe[n] \/ (n = p.ns /\ f = p.to),
           dirSync /\ p.to.ver # 0 => maybe'[p.ns] = {p.to},
           flusher = "write"
    PROVE  Inv'
<1> USE DEF Inv
<1>1. /\ p.ns \in Persistent /\ p.ns \in Namespaces /\ p.to \in Entry /\ p.to.at \in Nat
      /\ flushed' = [flushed EXCEPT ![p.ns] = p.to]
      /\ pending' = pending \ {p} /\ renamed' = NoNamespace
      /\ UNCHANGED <<entries, flusher, phase, dirSync, changes, failures, crashes, skipped>>
  BY Kinds DEF Written
<1>2. /\ flushed'[p.ns] = p.to /\ flushed' \in [Namespaces -> Entry]
      /\ \A n \in Namespaces \ {p.ns} : flushed'[n] = flushed[n]
  BY <1>1 DEF TypeOK
<1>3. \A n \in Namespaces \ Persistent : visible'[n] = Absent
  BY <1>1 DEF TypeOK
<1>4. TypeOK'
  BY <1>1, <1>2, <1>3 DEF TypeOK, entries
<1>5. \A q \in pending' : q.ns # renamed' /\ q.ns # p.ns
  BY <1>1, Kinds, StandaloneKVAssumption DEF CopyInv
<1>6. CopyInv'
  BY <1>1, <1>5 DEF CopyInv
<1>7. StaleInv' /\ VolatileInv' /\ SkipInv'
  BY <1>1 DEF StaleInv, Marked, VolatileInv, SkipInv, entries
<1>8. AgeInv'
  <2>1. p.to.at <= mem[p.ns].at /\ p.to.at <= changes
    BY <1>1, Kinds DEF AgeInv
  <2>2. \A n \in Namespaces : \A f \in maybe'[n] : f.at <= changes
    BY <2>1 DEF AgeInv
  <2>3. \A n \in Persistent : flushed'[n].at <= changes
    BY <1>1, <1>2, <2>1, Kinds, StandaloneKVAssumption DEF AgeInv
  <2>4. \A q \in pending' : flushed'[q.ns] = flushed[q.ns]
    BY <1>1, <1>2, <1>5, Kinds
  <2> QED BY <1>1, <2>2, <2>3, <2>4 DEF AgeInv, entries
<1>9. FlushedSurvives'
  <2>1. p.ns \in skipped \/ mem[p.ns].at >= p.to.at
    BY <1>1, Kinds DEF AgeInv
  <2> SUFFICES ASSUME NEW n \in Persistent, flushed'[n].ver # 0
               PROVE  /\ n \in skipped \/ mem[n].at >= flushed'[n].at
                      /\ visible'[n].at >= flushed'[n].at
                      /\ dirSync => \A f \in maybe'[n] : f.at >= flushed'[n].at
    BY <1>1 DEF FlushedSurvives, entries
  <2>2. CASE n = p.ns
    BY <1>1, <1>2, <2>1, <2>2
  <2>3. CASE n # p.ns
    BY <1>2, <2>3, StandaloneKVAssumption DEF FlushedSurvives
  <2> QED BY <2>2, <2>3
<1>10. NothingForgotten'
  <2> SUFFICES ASSUME NEW n \in Persistent, mem[n] # visible'[n]
               PROVE  [ns |-> n, to |-> mem[n]] \in pending' \/ Marked(n)' \/ n \in skipped
    BY <1>1 DEF NothingForgotten, Marked, entries
  <2>1. CASE n = p.ns
    <3>1. Marked(n)
      BY <2>1 DEF StaleInv
    <3> QED BY <1>1, <3>1 DEF Marked, entries
  <2>2. CASE n # p.ns
    <3>1. [ns |-> n, to |-> mem[n]] # p
      BY <2>2
    <3> QED BY <1>1, <2>2, <3>1, StandaloneKVAssumption DEF NothingForgotten, Marked, entries
  <2> QED BY <2>1, <2>2
<1> QED BY <1>4, <1>6, <1>7, <1>8, <1>9, <1>10

\* There was no file, and there is none.
LEMMA NothingToRemoveInv ==
    ASSUME Inv, NEW p \in pending, flusher = "write", NothingToRemove(p)
    PROVE  Inv'
<1> USE DEF Inv
<1> DEFINE gone(f) == IF f.ver = 0 THEN p.to ELSE f
<1>1. /\ p.ns \in Persistent /\ p.ns \in Namespaces /\ p.to \in Entry
      /\ p.to.ver = 0 /\ visible[p.ns].ver = 0 /\ visible[p.ns] \in maybe[p.ns]
      /\ visible' = [visible EXCEPT ![p.ns] = p.to]
      /\ maybe' = [maybe EXCEPT ![p.ns] = {gone(f) : f \in maybe[p.ns]}]
      /\ Written(p)
  BY Kinds DEF NothingToRemove
<1>2. /\ visible'[p.ns] = p.to /\ maybe'[p.ns] = {gone(f) : f \in maybe[p.ns]}
      /\ \A n \in Namespaces \ {p.ns} : visible'[n] = visible[n] /\ maybe'[n] = maybe[n]
      /\ visible' \in [Namespaces -> Entry]
  BY <1>1 DEF TypeOK
<1>3. \A f \in maybe'[p.ns] : f = p.to \/ f \in maybe[p.ns]
  BY <1>2
<1>4. p.to \in maybe'[p.ns]
  BY <1>1, <1>2
<1>5. maybe'[p.ns] \subseteq Entry
  BY <1>1, <1>3, Kinds
<1>6. maybe' \in [Namespaces -> SUBSET Entry]
  <2>1. maybe' = [n \in Namespaces |-> maybe'[n]]
    BY <1>1 DEF TypeOK
  <2>2. \A n \in Namespaces : maybe'[n] \subseteq Entry
    BY <1>2, <1>5, Kinds
  <2> QED BY <2>1, <2>2
<1> HIDE DEF gone
<1>7. \A n \in Namespaces : visible'[n] \in maybe'[n]
  BY <1>2, <1>4, Kinds
<1>8. \A n \in Namespaces \ Persistent : maybe'[n] = {Absent}
  BY <1>1, <1>2 DEF VolatileInv
<1>9. \A n \in Namespaces : \A f \in maybe'[n] : f \in maybe[n] \/ (n = p.ns /\ f = p.to)
  BY <1>2, <1>3
<1> QED BY <1>1, <1>2, <1>6, <1>7, <1>8, <1>9, WrittenInv

\* The sync of the directory, where there is one, makes every file what it shows.
LEMMA SyncDirInv ==
    ASSUME Inv, NEW p \in pending, flusher = "write", SyncDir(p)
    PROVE  Inv'
<1> USE DEF Inv
<1>1. /\ p.ns \in Persistent /\ p.ns \in Namespaces /\ Persistent \subseteq Namespaces
      /\ visible' = visible /\ visible[p.ns] = p.to
      /\ maybe' = IF dirSync THEN [n \in Namespaces |-> {visible[n]}] ELSE maybe
      /\ Written(p)
  BY Kinds, StandaloneKVAssumption DEF SyncDir, CopyInv
<1>2. visible' \in [Namespaces -> Entry] /\ maybe' \in [Namespaces -> SUBSET Entry]
  BY <1>1 DEF TypeOK
<1>3. /\ dirSync => \A n \in Namespaces : maybe'[n] = {visible[n]}
      /\ \A n \in Namespaces : visible[n] \in maybe'[n] /\ maybe'[n] \subseteq maybe[n]
  BY <1>1, Kinds
<1>4. \A n \in Namespaces \ Persistent : maybe'[n] = {Absent}
  BY <1>1, <1>3 DEF TypeOK, VolatileInv
<1> QED BY <1>1, <1>2, <1>3, <1>4, WrittenInv

\* A process starts with the files it finds, each of them one the last may have left.
LEMMA BootInv ==
    ASSUME Inv, NEW found, \A n \in Namespaces : found[n] \in maybe[n],
           found \in [Namespaces -> Entry], Boot(found),
           maybe' \in [Namespaces -> SUBSET Entry],
           \A n \in Namespaces : found[n] \in maybe'[n] /\ maybe'[n] \subseteq maybe[n],
           crashes' \in 0..MaxCrashes, flushed' \in [Namespaces -> Entry],
           \A n \in Persistent : flushed'[n].at <= changes,
           \A n \in Persistent : flushed'[n].ver # 0 =>
               /\ found[n].at >= flushed'[n].at
               /\ dirSync => \A f \in maybe'[n] : f.at >= flushed'[n].at
    PROVE  Inv'
<1> USE DEF Inv
<1>1. /\ dirty' = {} /\ wake' = FALSE
      /\ flusher' = "wait" /\ pending' = {} /\ renamed' = NoNamespace
      /\ phase' = "open" /\ visible' = found
      /\ UNCHANGED <<dirSync, changes>>
      /\ Persistent \subseteq Namespaces /\ Absent \in Entry /\ Absent.at = 0
  BY StandaloneKVAssumption DEF Boot, Absent, Entry
<1>2. /\ skipped' \subseteq Persistent
      /\ mem' = [n \in Namespaces |-> IF n \in Persistent \ skipped' THEN found[n] ELSE Absent]
      /\ skipped' # {} => failures < MaxFailures
      /\ failures' = IF skipped' = {} THEN failures ELSE failures + 1
  BY DEF Boot
<1>3. failures' \in 0..MaxFailures
  BY <1>2, StandaloneKVAssumption DEF TypeOK
<1>4. /\ mem' \in [Namespaces -> Entry]
      /\ \A n \in Persistent \ skipped' : mem'[n] = found[n]
      /\ \A n \in Namespaces : mem'[n] = found[n] \/ mem'[n] = Absent
  BY <1>1, <1>2
<1>5. \A n \in Namespaces \ Persistent : maybe'[n] = {Absent} /\ found[n] = Absent
  BY DEF VolatileInv
<1>6. TypeOK'
  BY <1>1, <1>2, <1>3, <1>4, <1>5 DEF TypeOK
<1>7. CopyInv' /\ StaleInv' /\ VolatileInv' /\ SkipInv' /\ NothingForgotten'
  BY <1>1, <1>4, <1>5 DEF CopyInv, StaleInv, VolatileInv, SkipInv, NothingForgotten
<1>8. FlushedSurvives'
  BY <1>1, <1>4 DEF FlushedSurvives
<1>9. AgeInv'
  <2>1. \A n \in Namespaces : found[n].at <= changes
    BY DEF AgeInv
  <2>2. \A n \in Namespaces : mem'[n].at <= changes
    BY <1>1, <1>4, <2>1, Kinds
  <2>3. \A n \in Namespaces : \A f \in maybe'[n] : f.at <= changes
    BY DEF AgeInv
  <2> QED BY <1>1, <2>2, <2>3 DEF AgeInv
<1> QED BY <1>6, <1>7, <1>8, <1>9

LEMMA NextInv == Inv /\ [Next]_vars => Inv'
<1> SUFFICES ASSUME Inv, [Next]_vars PROVE Inv'
  OBVIOUS
<1>1. ASSUME NEW n \in Namespaces, Set(n) PROVE Inv'
  <2>1. mem[n].ver + 1 \in Nat
    BY DEF Inv, TypeOK, Entry
  <2> QED BY <1>1, <2>1, ChangeInv DEF Set
<1>2. ASSUME NEW n \in Namespaces, Delete(n) PROVE Inv'
  BY <1>2, ChangeInv DEF Delete
<1>3. CASE Wake
  BY <1>3, WakeInv
<1>4. CASE Elapse
  BY <1>4, CopiesInv DEF Elapse, Inv, TypeOK
<1>5. CASE CloseFlush
  BY <1>5, CopiesInv DEF CloseFlush
<1>6. CASE FlushDone
  BY <1>6, FlushDoneInv
<1>7. ASSUME NEW p \in pending, WriteStep(p) PROVE Inv'
  BY <1>7, WriteFailedInv, RenameInv, NothingToRemoveInv, SyncDirInv DEF WriteStep
<1>8. CASE Close
  BY <1>8, CloseInv
<1>9. ASSUME Boot(visible), UNCHANGED <<maybe, flushed>>, crashes' \in 0..MaxCrashes
      PROVE  Inv'
  <2>1. \A n \in Persistent : flushed[n].at <= changes
    BY DEF Inv, AgeInv
  <2>2. \A n \in Persistent : flushed[n].ver # 0 =>
            /\ visible[n].at >= flushed[n].at
            /\ dirSync => \A f \in maybe[n] : f.at >= flushed[n].at
    BY DEF Inv, FlushedSurvives
  <2>3. /\ visible \in [Namespaces -> Entry] /\ maybe \in [Namespaces -> SUBSET Entry]
        /\ \A n \in Namespaces : visible[n] \in maybe[n]
        /\ flushed \in [Namespaces -> Entry]
    BY DEF Inv, TypeOK
  <2> QED BY <1>9, <2>1, <2>2, <2>3, BootInv
<1>10. CASE Restart \/ Crash
  <2>1. crashes' \in 0..MaxCrashes
    BY <1>10, StandaloneKVAssumption DEF Restart, Crash, Inv, TypeOK
  <2> QED BY <1>9, <1>10, <2>1 DEF Restart, Crash
<1>11. CASE PowerLoss
  <2>1. crashes' \in 0..MaxCrashes
    BY <1>11, StandaloneKVAssumption DEF PowerLoss, Inv, TypeOK
  <2>2. PICK found \in [Namespaces -> UNION {maybe[n] : n \in Namespaces}] :
            /\ \A n \in Namespaces : found[n] \in maybe[n]
            /\ Boot(found)
            /\ maybe' = [n \in Namespaces |-> {found[n]}]
            /\ flushed' = IF dirSync THEN flushed ELSE found
    BY <1>11 DEF PowerLoss
  <2>3. \A n \in Namespaces : found[n] \in Entry
    BY <2>2, Kinds DEF Inv
  <2>4. found \in [Namespaces -> Entry] /\ maybe' \in [Namespaces -> SUBSET Entry]
    BY <2>2, <2>3
  <2>5. \A n \in Namespaces : found[n] \in maybe'[n] /\ maybe'[n] \subseteq maybe[n]
    BY <2>2
  <2>6. flushed' \in [Namespaces -> Entry]
    BY <2>2, <2>4 DEF Inv, TypeOK
  <2>7. \A n \in Persistent : flushed'[n].at <= changes
    BY <2>2, StandaloneKVAssumption DEF Inv, AgeInv
  <2>8. \A n \in Persistent : flushed'[n].ver # 0 =>
            /\ found[n].at >= flushed'[n].at
            /\ dirSync => \A f \in maybe'[n] : f.at >= flushed'[n].at
    <3>1. \A n \in Persistent : found[n] \in maybe[n] /\ found[n].at \in Nat
      BY <2>2, Kinds, StandaloneKVAssumption DEF Inv
    <3>2. \A n \in Persistent : maybe'[n] = {found[n]}
      BY <2>2, StandaloneKVAssumption
    <3> QED BY <2>2, <3>1, <3>2 DEF Inv, FlushedSurvives
  <2> QED BY <2>1, <2>2, <2>4, <2>5, <2>6, <2>7, <2>8, BootInv
<1>12. CASE UNCHANGED vars
  BY <1>12 DEF vars, entries, flushing, files, Inv, TypeOK, CopyInv, StaleInv, Marked,
               VolatileInv, SkipInv, AgeInv, NothingForgotten, FlushedSurvives
<1> QED
  BY <1>1, <1>2, <1>3, <1>4, <1>5, <1>6, <1>7, <1>8, <1>9, <1>10, <1>11, <1>12
  DEF Next, Flush

----------------------------------------------------------------------------
\* The inductive invariant holds of every state of the store.
THEOREM InvariantHolds == Spec => []Inv
  BY InitInv, NextInv, PTL DEF Spec

\* The store's state has its type, and a file is always among those a power loss may leave.
THEOREM TypeCorrect == Spec => []TypeOK
  BY InvariantHolds, PTL DEF Inv

\* touch, flusher, flush and close: a change that is not in its file is being written, or is
\* marked with somebody to flush it, through failed writes, closes, restarts and crashes,
\* unless the load skipped its file and it has not changed since.
THEOREM NothingIsForgotten == Spec => []NothingForgotten
  BY InvariantHolds, PTL DEF Inv

\* snapshot.write: no crash of the process brings back a namespace older than the file a flush
\* has reported as written, and no power loss does where directories are synced.
THEOREM WrittenSurvives == Spec => []FlushedSurvives
  BY InvariantHolds, PTL DEF Inv
=============================================================================
