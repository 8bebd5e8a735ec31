---------------------------- MODULE TupleVersion ----------------------------
(***************************************************************************)
(* The header protocol of one record (tuple.h).  A writer locks the tuple  *)
(* with write intent, changes it in place, or spills the old version into  *)
(* a copy behind it, or replaces the tuple in the tree by a new one; its   *)
(* unlock bumps the version in the header.  Readers take no lock: they     *)
(* copy the value word by word between two looks at the header.  Snapshot  *)
(* readers walk the chain of versions to the newest one of their id.       *)
(* Every read or write of a field of a shared tuple is a step.             *)
(***************************************************************************)
EXTENDS Integers, Sequences, SequencesExt

CONSTANTS
    Readers, Writers,
    VersionBits,   \* width of the version in the header: 27 in the code
    TickSpan,      \* commit ids that share a read-only tick
    MaxTid,        \* bound: the commit ids are 1..MaxTid
    MaxLocks       \* bound: how often the writers lock a tuple

(* Fewer locks than header versions: see the comment at tuple.h:120.  That *)
(* a power is a number holds anyway; it is there for the proofs.           *)
ASSUME TupleAssumption ==
    /\ {VersionBits, TickSpan, MaxTid, MaxLocks} \subseteq Nat \ {0}
    /\ MaxLocks < 2^VersionBits /\ 2^VersionBits \in Nat

VARIABLES
    heap,       \* the tuples, by address
    root,       \* the tuple the tree holds for the key
    tick,       \* the read-only tick of the current epoch
    wr, rd,     \* the writers' and the readers' local state
    locks,      \* how often a tuple was locked with write intent
    installed,  \* history: the versions of the record, oldest first
    seen        \* history: the versions current since each reader's search

vars == <<heap, root, tick, wr, rd, locks, installed, seen>>

MIN_TID == 0
MAX_TID == MaxTid + 1       \* the version of a marker, an uncommitted insert
None == 0                   \* no value, no tuple
Junk == -1                  \* the key, kept where a deleted value was
to_read_only_tick(t) == t \div TickSpan

Header == [locked : BOOLEAN, deleting : BOOLEAN, write_intent : BOOLEAN,
           modifying : BOOLEAN, latest : BOOLEAN, version : 0..(2^VersionBits - 1)]
Values == {Junk} \cup (0..MAX_TID)
Tuples == [hdr : Header, version : 0..MAX_TID, value : Values \X Values, next : Nat]
LatestHdr == [locked |-> FALSE, deleting |-> FALSE, write_intent |-> FALSE,
              modifying |-> FALSE, latest |-> TRUE, version |-> 0]

Hdr(i) == heap[i].hdr
Whole(v) == <<v, v>>
IdleWriter == [pc |-> "idle", at |-> None, tid |-> MIN_TID, spill |-> FALSE, delete |-> FALSE, rep |-> None]
IdleReader == [pc |-> "idle", at |-> None, t |-> MIN_TID, v |-> LatestHdr,
               start_t |-> MIN_TID, copy |-> Whole(None), next |-> None]

(* A loaded record, or the marker of an insert that has not committed.     *)
Init ==
    /\ \E loaded \in BOOLEAN :
          /\ heap = <<[hdr |-> LatestHdr, version |-> IF loaded THEN 1 ELSE MAX_TID,
                       value |-> IF loaded THEN Whole(1) ELSE Whole(MAX_TID), next |-> None]>>
          /\ installed = << IF loaded THEN [tid |-> 1, value |-> Whole(1)]
                                      ELSE [tid |-> MIN_TID, value |-> Whole(None)] >>
    /\ root = 1 /\ tick = to_read_only_tick(1) /\ locks = 0
    /\ wr = [w \in Writers |-> IdleWriter]
    /\ rd = [r \in Readers |-> IdleReader]
    /\ seen = [r \in Readers |-> {}]

(***************************************************************************)
(* Writers.  The tuple was found by an earlier search of the tree.         *)
(***************************************************************************)
SetW(w, new) == wr' = [wr EXCEPT ![w] = new]
KeepReaders == UNCHANGED <<tick, rd, installed, seen>>

Find(w) ==
    /\ wr[w].pc = "idle" /\ locks < MaxLocks
    /\ SetW(w, [IdleWriter EXCEPT !.pc = "found", !.at = root])
    /\ UNCHANGED <<heap, root, locks>> /\ KeepReaders

(* lock(): with write intent to commit, without to read or expose.         *)
Lock(w, write_intent) ==
    LET i == wr[w].at IN
    /\ wr[w].pc = "found" /\ ~Hdr(i).locked
    /\ write_intent => locks < MaxLocks
    /\ heap' = [heap EXCEPT ![i].hdr.locked = TRUE,
                            ![i].hdr.write_intent = @ \/ write_intent]
    /\ SetW(w, [wr[w] EXCEPT !.pc = IF write_intent THEN "locked" ELSE "expose"])
    /\ locks' = IF write_intent THEN locks + 1 ELSE locks
    /\ UNCHANGED root /\ KeepReaders

(* Mutants: the version is not bumped; the intent bit survives; the        *)
(* version outgrows its bits.                                              *)
UnlockedNoBump(h) ==
    [h EXCEPT !.locked = FALSE, !.modifying = FALSE, !.write_intent = FALSE]
UnlockedIntent(h) ==
    [h EXCEPT !.locked = FALSE, !.modifying = FALSE,
              !.version = IF h.modifying \/ h.write_intent THEN (@ + 1) % 2^VersionBits ELSE @]
UnlockedWide(h) ==
    [h EXCEPT !.locked = FALSE, !.modifying = FALSE, !.write_intent = FALSE,
              !.version = IF h.modifying \/ h.write_intent THEN @ + 2^VersionBits ELSE @]

(* What unlock() leaves in the header.                                     *)
Unlocked(h) ==
    [h EXCEPT !.locked = FALSE, !.modifying = FALSE, !.write_intent = FALSE,
              !.version = IF h.modifying \/ h.write_intent THEN (@ + 1) % 2^VersionBits ELSE @]

CanOverwriteAlways(prev, cur) == TRUE  \* mutant: old versions are not kept
can_overwrite_record_tid(prev, cur) ==
    prev = MAX_TID \/ to_read_only_tick(prev) = to_read_only_tick(cur) \/ prev = MIN_TID

(* The ids a commit of tuple i may draw: of the current tick, above the    *)
(* version it replaces.                                                    *)
CommitTids(i) == {t \in 1..MaxTid : /\ to_read_only_tick(t) = tick
                                    /\ heap[i].version # MAX_TID => t > heap[i].version}

IsLatestUnchecked(i) == TRUE  \* mutant: a replaced tuple is written too
is_latest(i) == Hdr(i).latest

(* The lock is given back with nothing written: after a read or an         *)
(* exposure, or by a commit that fails.                                    *)
Unlock(w) ==
    /\ wr[w].pc \in {"expose", "locked"}
    /\ heap' = [heap EXCEPT ![wr[w].at].hdr = Unlocked(@)]
    /\ SetW(w, IdleWriter)
    /\ UNCHANGED <<root, locks>> /\ KeepReaders

(* write_record_at decides: room in the tuple, an old value in it, and an  *)
(* old version that no snapshot needs.                                     *)
Commit(w) ==
    LET i == wr[w].at IN
    /\ wr[w].pc = "locked" /\ is_latest(i)
    /\ \E t \in CommitTids(i), delete \in BOOLEAN, fits \in BOOLEAN :
          /\ delete => fits
          /\ SetW(w, [wr[w] EXCEPT !.tid = t, !.delete = delete,
                !.spill = ~can_overwrite_record_tid(heap[i].version, t),
                !.pc = IF fits /\ ~Hdr(i).deleting THEN "mark" ELSE "replace"])
    /\ UNCHANGED <<heap, root, locks>> /\ KeepReaders

mark_modifying(w) ==
    /\ wr[w].pc = "mark"
    /\ heap' = [heap EXCEPT ![wr[w].at].hdr.modifying = TRUE]
    /\ SetW(w, [wr[w] EXCEPT !.pc = IF wr[w].spill THEN "spill" ELSE
                                    IF wr[w].delete THEN "version" ELSE "write1"])
    /\ UNCHANGED <<root, locks>> /\ KeepReaders

(* The copy of the old version goes behind the tuple.                      *)
Spill(w) ==
    LET i == wr[w].at IN
    /\ wr[w].pc = "spill"
    /\ heap' = Append([heap EXCEPT ![i].next = Len(heap) + 1],
                      [heap[i] EXCEPT !.hdr = [LatestHdr EXCEPT !.latest = FALSE]])
    /\ SetW(w, [wr[w] EXCEPT !.pc = IF wr[w].delete THEN "version" ELSE "write1"])
    /\ UNCHANGED <<root, locks>> /\ KeepReaders

WriteWord(w) ==
    LET n == IF wr[w].pc = "write1" THEN 1 ELSE 2 IN
    /\ wr[w].pc \in {"write1", "write2"}
    /\ heap' = [heap EXCEPT ![wr[w].at].value[n] = wr[w].tid]
    /\ SetW(w, [wr[w] EXCEPT !.pc = IF n = 1 THEN "write2" ELSE "version"])
    /\ UNCHANGED <<root, locks>> /\ KeepReaders

SetVersion(w) ==
    /\ wr[w].pc = "version"
    /\ heap' = [heap EXCEPT ![wr[w].at].version = wr[w].tid]
    /\ SetW(w, [wr[w] EXCEPT !.pc = IF wr[w].delete THEN "deleting" ELSE "unlock"])
    /\ UNCHANGED <<root, locks>> /\ KeepReaders

(* mark_deleting, then on_logical_delete keeps the key in the tuple.       *)
mark_deleting(w) ==
    /\ wr[w].pc = "deleting"
    /\ heap' = [heap EXCEPT ![wr[w].at].hdr.deleting = TRUE]
    /\ SetW(w, [wr[w] EXCEPT !.pc = "key"])
    /\ UNCHANGED <<root, locks>> /\ KeepReaders

on_logical_delete(w) ==
    /\ wr[w].pc = "key"
    /\ heap' = [heap EXCEPT ![wr[w].at].value = Whole(Junk)]
    /\ SetW(w, [wr[w] EXCEPT !.pc = "unlock"])
    /\ UNCHANGED <<root, locks>> /\ KeepReaders

(* A new tuple with the old one behind it; the old one stops being latest. *)
Replace(w) ==
    LET i == wr[w].at IN
    /\ wr[w].pc = "replace"
    /\ heap' = Append([heap EXCEPT ![i].hdr.latest = FALSE],
                 [hdr |-> [LatestHdr EXCEPT !.deleting = wr[w].delete], next |-> i,
                  version |-> wr[w].tid, value |-> Whole(IF wr[w].delete THEN Junk ELSE wr[w].tid)])
    /\ SetW(w, [wr[w] EXCEPT !.pc = "link", !.rep = Len(heap) + 1])
    /\ UNCHANGED <<root, locks>> /\ KeepReaders

(* The version a write has made becomes the record's current one.          *)
Install(w) ==
    LET new == [tid |-> wr[w].tid, value |-> Whole(IF wr[w].delete THEN None ELSE wr[w].tid)] IN
    /\ installed' = Append(installed, new)
    /\ seen' = [r \in Readers |->
                  IF rd[r].pc = "idle" THEN seen[r] ELSE seen[r] \cup {new}]

(* The new tuple is locked before the tree holds it.                       *)
LinkReplacement(w) ==
    /\ wr[w].pc = "link"
    /\ heap' = [heap EXCEPT ![wr[w].rep].hdr.locked = TRUE, ![wr[w].rep].hdr.write_intent = TRUE]
    /\ root' = wr[w].rep
    /\ SetW(w, [wr[w] EXCEPT !.pc = "unlock_rep"])
    /\ Install(w)
    /\ UNCHANGED <<tick, rd, locks>>

UnlockReplacement(w) ==
    /\ wr[w].pc = "unlock_rep"
    /\ heap' = [heap EXCEPT ![wr[w].rep].hdr = Unlocked(@)]
    /\ SetW(w, [wr[w] EXCEPT !.pc = "unlock"])
    /\ UNCHANGED <<root, locks>> /\ KeepReaders

UnlockWritten(w) ==
    /\ wr[w].pc = "unlock"
    /\ heap' = [heap EXCEPT ![wr[w].at].hdr = Unlocked(@)]
    /\ SetW(w, IdleWriter)
    /\ IF wr[w].rep = None THEN Install(w) ELSE UNCHANGED <<installed, seen>>
    /\ UNCHANGED <<root, tick, rd, locks>>

(* A read-only tick ends when the commits of the one before have.          *)
AdvanceTick ==
    /\ to_read_only_tick(MaxTid) > tick
    /\ \A w \in Writers : wr[w].tid # MIN_TID => to_read_only_tick(wr[w].tid) = tick
    /\ tick' = tick + 1
    /\ UNCHANGED <<heap, root, wr, rd, locks, installed, seen>>

(***************************************************************************)
(* Readers: record_at, record_at_chain.                                    *)
(***************************************************************************)
SetR(r, new) == rd' = [rd EXCEPT ![r] = new]
KeepWriters == UNCHANGED <<heap, root, tick, wr, locks, installed>>

(* The snapshot of the last tick that is over, and the newest version.     *)
SnapshotTid == (tick - 1) * TickSpan - 1
AllowWriteIntent(r) == rd[r].t # MAX_TID

Search(r) ==
    /\ rd[r].pc = "idle"
    /\ \E t \in {MAX_TID} \cup (IF SnapshotTid > 0 THEN {SnapshotTid} ELSE {}) :
          SetR(r, [IdleReader EXCEPT !.pc = "record_at", !.at = root, !.t = t])
    /\ seen' = [seen EXCEPT ![r] = {Last(installed)}]
    /\ KeepWriters

(* A marker is no record.                                                  *)
RecordAt(r) ==
    /\ rd[r].pc = "record_at"
    /\ SetR(r, [rd[r] EXCEPT !.pc = IF heap[rd[r].at].version = MAX_TID THEN "empty" ELSE "loop"])
    /\ UNCHANGED seen /\ KeepWriters

IsReaderStable(h, allow_write_intent) ==
    ~h.modifying /\ (h.write_intent => allow_write_intent)

reader_stable_version(r) ==
    LET h == Hdr(rd[r].at) IN
    /\ rd[r].pc = "loop"
    /\ IsReaderStable(h, AllowWriteIntent(r))
    /\ SetR(r, [rd[r] EXCEPT !.pc = "behind", !.v = h])
    /\ UNCHANGED seen /\ KeepWriters

is_not_behind(r) ==
    LET version == heap[rd[r].at].version IN
    /\ rd[r].pc = "behind"
    /\ IF version <= rd[r].t
       THEN SetR(r, [rd[r] EXCEPT !.start_t = version, !.copy = Whole(None),
                       !.pc = IF rd[r].v.deleting THEN "check" ELSE "copy1"])
       ELSE SetR(r, [rd[r] EXCEPT !.pc = "next"])
    /\ UNCHANGED seen /\ KeepWriters

CopyWord(r) ==
    LET n == IF rd[r].pc = "copy1" THEN 1 ELSE 2 IN
    /\ rd[r].pc \in {"copy1", "copy2"}
    /\ SetR(r, [rd[r] EXCEPT !.copy[n] = heap[rd[r].at].value[n],
                             !.pc = IF n = 1 THEN "copy2" ELSE "check"])
    /\ UNCHANGED seen /\ KeepWriters

get_next(r) ==
    /\ rd[r].pc = "next"
    /\ SetR(r, [rd[r] EXCEPT !.next = heap[rd[r].at].next, !.pc = "check_next"])
    /\ UNCHANGED seen /\ KeepWriters

(* Equal but for the locked, write_intent and latest bits.                 *)
SameVersion(h, v) ==
    h.version = v.version /\ h.modifying = v.modifying /\ h.deleting = v.deleting

reader_check_version(r) ==
    LET same == SameVersion(Hdr(rd[r].at), rd[r].v) IN
    /\ rd[r].pc \in {"check", "check_next"}
    /\ SetR(r, IF ~same THEN [rd[r] EXCEPT !.pc = "loop"]
               ELSE IF rd[r].pc = "check" THEN [rd[r] EXCEPT !.pc = IF rd[r].copy = Whole(None) THEN "empty" ELSE "record"]
               ELSE IF rd[r].next = None THEN [rd[r] EXCEPT !.pc = "empty", !.start_t = MIN_TID, !.copy = Whole(None)]
               ELSE [rd[r] EXCEPT !.pc = "loop", !.at = rd[r].next])
    /\ UNCHANGED seen /\ KeepWriters

(***************************************************************************)
(* Validation of what a clean read returned: stable_is_latest_version.     *)
(***************************************************************************)
(* After 16 spins on a write intent the answer is no.                      *)
try_writer_stable_version(r) ==
    LET h == Hdr(rd[r].at) IN
    /\ rd[r].pc = "record" /\ rd[r].t = MAX_TID
    /\ SetR(r, IF h.write_intent THEN [rd[r] EXCEPT !.pc = "invalid"]
                                 ELSE [rd[r] EXCEPT !.pc = "is_latest", !.v = h])
    /\ UNCHANGED seen /\ KeepWriters

is_latest_version(r) ==
    /\ rd[r].pc = "is_latest"
    /\ SetR(r, [rd[r] EXCEPT !.pc =
          IF rd[r].v.latest /\ heap[rd[r].at].version <= rd[r].start_t
          THEN "recheck" ELSE "invalid"])
    /\ UNCHANGED seen /\ KeepWriters

CheckReaderBits(r) ==  \* mutant: the check of the readers, blind to locks
    /\ rd[r].pc = "recheck"
    /\ SetR(r, [rd[r] EXCEPT !.pc =
          IF SameVersion(Hdr(rd[r].at), rd[r].v) THEN "valid" ELSE "invalid"])
    /\ UNCHANGED seen /\ KeepWriters

writer_check_version(r) ==
    /\ rd[r].pc = "recheck"
    /\ SetR(r, [rd[r] EXCEPT !.pc = IF Hdr(rd[r].at) = rd[r].v THEN "valid" ELSE "invalid"])
    /\ UNCHANGED seen /\ KeepWriters

WriterStep(w) ==
    \/ \E write_intent \in BOOLEAN : Lock(w, write_intent)
    \/ Unlock(w) \/ Commit(w)
    \/ mark_modifying(w) \/ Spill(w) \/ WriteWord(w) \/ SetVersion(w)
    \/ mark_deleting(w) \/ on_logical_delete(w)
    \/ Replace(w) \/ LinkReplacement(w) \/ UnlockReplacement(w) \/ UnlockWritten(w)

ReaderStep(r) ==
    \/ RecordAt(r) \/ reader_stable_version(r) \/ is_not_behind(r)
    \/ CopyWord(r) \/ get_next(r) \/ reader_check_version(r)
    \/ try_writer_stable_version(r) \/ is_latest_version(r) \/ writer_check_version(r)

Next ==
    \/ \E w \in Writers : Find(w) \/ WriterStep(w)
    \/ \E r \in Readers : Search(r) \/ ReaderStep(r)
    \/ AdvanceTick

Spec == Init /\ [][Next]_vars
FairSpec == Spec /\ \A w \in Writers : WF_vars(WriterStep(w))
                 /\ \A r \in Readers : WF_vars(ReaderStep(r))

(***************************************************************************)
(* Properties                                                              *)
(***************************************************************************)
TypeOK ==
    /\ heap \in Seq(Tuples) /\ root \in DOMAIN heap
    /\ tick \in 0..to_read_only_tick(MaxTid) /\ locks \in 0..MaxLocks
    /\ \A r \in Readers : /\ rd[r].v \in Header /\ rd[r].copy \in Values \X Values
                          /\ rd[r].start_t \in 0..MAX_TID
    /\ \A w \in Writers : wr[w].tid \in 0..MaxTid /\ wr[w].at \in 0..Len(heap)

Returned(r) == rd[r].pc \in {"empty", "record", "is_latest", "recheck", "valid", "invalid"}
Result(r) == [tid |-> rd[r].start_t, value |-> rd[r].copy]

(* A clean read returns one version whole, and one that was the record's   *)
(* current version at some time since the reader found the tuple: no torn  *)
(* value, no value with another's version, no uncommitted insert.          *)
CleanReadsAreCurrent ==
    \A r \in Readers : Returned(r) /\ rd[r].t = MAX_TID => Result(r) \in seen[r]

(* A snapshot read returns the newest version up to its id, whatever is    *)
(* written meanwhile.                                                      *)
SnapshotReadsNewest ==
    \A r \in Readers : Returned(r) /\ rd[r].t # MAX_TID =>
        \E n \in DOMAIN installed :
            /\ Result(r) = installed[n]
            /\ \A m \in (n + 1)..Len(installed) : installed[m].tid > rd[r].t

(* Unless a writer is at work the tuple in the tree holds the version      *)
(* installed last: no commit goes into a tuple that was replaced.          *)
CurrentInTree ==
    LET now == heap[root] IN
    ~now.hdr.locked =>
        /\ now.hdr.latest
        /\ Last(installed).tid = IF now.version = MAX_TID THEN MIN_TID ELSE now.version
        /\ Last(installed).value = IF now.version = MAX_TID \/ now.hdr.deleting
                                   THEN Whole(None) ELSE now.value

(* When the validation of a clean read says yes, what was read is the      *)
(* current version, and nobody holds the tuple to change it.               *)
ValidatedIsCurrent ==
    [][\A r \in Readers : rd[r].pc = "recheck" /\ rd'[r].pc = "valid" =>
           /\ Result(r) = Last(installed)
           /\ ~Hdr(rd[r].at).write_intent]_vars

(* Every read ends: nobody leaves a tuple marked.                          *)
ReadsEnd == \A r \in Readers : rd[r].pc = "record_at" ~> Returned(r)
=============================================================================
