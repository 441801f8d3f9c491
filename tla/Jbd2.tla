---------------------------- MODULE Jbd2 ----------------------------
(***************************************************************************)
(* The metadata journal: src/fs/jbd2.c (analysis, replay) and              *)
(* src/fs/jbd2_write.inc (the single-owner writer), on a device whose      *)
(* write cache loses any part of the unflushed writes when power fails.    *)
(*                                                                         *)
(* The device: sb, log and home are what a read returns; lostSb, lostLog   *)
(* and lostHome hold, per block, what a power cut may leave there instead  *)
(* (older contents and torn blocks).  A flush empties them.  The steps of  *)
(* a commit are the batches of writes between two flushes: a cut, or an    *)
(* I/O error, inside a batch leaves a subset of it, which the cut after    *)
(* the batch can leave too.  The superblock fields and a commit record on  *)
(* a zeroed block change one 512-byte sector, so they never tear.          *)
(***************************************************************************)
EXTENDS Integers, Sequences, FiniteSets, TLC
LOCAL INSTANCE FiniteSetsExt

CONSTANTS Home,        \* home blocks a transaction may name (j_target)
          Val,         \* contents of a home block
          Magic,       \* the content that starts with the journal's magic number
          LogLen,      \* log blocks: journal length minus the superblock
          Tags,        \* images one descriptor block can name
          SeqMod,      \* sequence numbers are modulo this (2^32 in the code)
          CreditSet,   \* credits a caller asks for
          InitDisks,   \* disks at the first mount: [sb, log, home], and what the
                       \* file system that left them had in its blocks: store
          MaxCommits,  \* bound: transactions begun
          MaxCuts      \* bound: power cuts

ASSUME JournalAssumption ==
    /\ LogLen \in Nat /\ LogLen >= 2
    /\ Tags \in Nat \ {0}
    /\ SeqMod \in Nat /\ SeqMod > 2 * (MaxCommits + LogLen)
    /\ Magic \in Val

VARIABLES sb, log, home,              \* the device as it reads now
          lostSb, lostLog, lostHome,  \* what a power cut may leave instead
          mode,      \* "off", "replay", "up", "refused", "failed"
          plan,      \* the analysed journal between jbd2_analyze and its release
          w,         \* struct jbd2_writer
          step,      \* the batch last written by commit, checkpoint or replay
          commits, cuts

device == <<sb, log, home, lostSb, lostLog, lostHome>>
vars == <<device, mode, plan, w, step, commits, cuts>>

Torn == "torn"                        \* a home block written in part
Pos == 1 .. LogLen
Advance(i, n) == ((i - 1 + n) % LogLen) + 1    \* j_next, n times

--------------------------------------------------------------------------
(* Journal blocks.  A checksum holds iff the contents are the ones sealed. *)

Zero == [t |-> "zero"]                \* no magic number
Desc(s, tags) == [t |-> "desc", seq |-> s, tags |-> tags]
Revoke(s, blocks) == [t |-> "revoke", seq |-> s, blocks |-> blocks]
Commit(s) == [t |-> "commit", seq |-> s]

\* Mutant: the image is logged as it is.
ImageRaw(v) == [t |-> "image", val |-> v, first |-> "own"]

\* The image as logged: a leading magic number is replaced by zero (escaped).
Image(v) == [t |-> "image", val |-> v, first |-> IF v = Magic THEN "zero" ELSE "own"]

Header(b) == b.t \in {"desc", "revoke", "commit", "tornheader"}
HasMagic(b) == Header(b) \/ (b.t = "image" /\ b.val = Magic /\ b.first = "own")

\* One of the two sectors new, the other old: the checksum does not hold.
Half(b) == IF Header(b) THEN [t |-> "tornheader", seq |-> b.seq]
           ELSE Zero
Tear(old, new) ==
    IF {old.t, new.t} \subseteq {"zero", "commit"} THEN {} ELSE {Half(old), Half(new)}

--------------------------------------------------------------------------
(* Device writes, in the batch between two flushes. *)

WriteLog(batch) ==
    /\ log' = batch @@ log
    /\ lostLog' = [i \in Pos |-> IF i \in DOMAIN batch
                     THEN lostLog[i] \cup {log[i]} \cup Tear(log[i], batch[i])
                     ELSE lostLog[i]]

\* batch gives, per home block, the sequence of contents written to it.
WriteHome(batch, cached) ==
    /\ home' = [h \in Home |-> IF h \in DOMAIN batch THEN batch[h][Len(batch[h])] ELSE home[h]]
    /\ lostHome' = [h \in Home |->
         IF h \in DOMAIN batch
         THEN cached[h] \cup {home[h], Torn} \cup {batch[h][k] : k \in DOMAIN batch[h]}
         ELSE cached[h]]

WriteSb(new, cached) == sb' = new /\ lostSb' = cached \cup {sb}

Clean(S) == [x \in S |-> {}]
NothingLost == lostSb' = {} /\ lostLog' = Clean(Pos) /\ lostHome' = Clean(Home)

\* Mutant: the flush is forgotten.
NoFlush == UNCHANGED <<lostSb, lostLog, lostHome>>

\* block_flush as the last step of an operation: the device's cache is empty.
Flush == NothingLost

\* Mutant: the superblock is written before the blocks it answers for are safe.
NoBarrier == UNCHANGED <<lostLog, lostHome>>

\* block_flush before the superblock is written.
Barrier == lostLog' = Clean(Pos) /\ lostHome' = Clean(Home)

--------------------------------------------------------------------------
(* jbd2_analyze: the scan of the log from its tail. *)

Later(a, b) == (a - b) % SeqMod < SeqMod \div 2   \* (uint32_t)(a-b) < 0x80000000

\* The element of a singleton: a value bound in a set is computed once.
Only(S) == CHOOSE x \in S : TRUE

\* One descriptor with its images, one revoke block or one commit record.
ScanBlock(l, s) ==
    LET b == l[s.cur]
        past(n) == [s EXCEPT !.cur = Advance(@, n), !.used = @ + n]
        at(k) == l[Advance(s.cur, k)]
        bad == {k \in DOMAIN b.tags : s.used + k >= LogLen \/ at(k) # b.tags[k].image}
    IN CASE s.used >= LogLen \/ ~HasMagic(b) -> [s EXCEPT !.end = "stop"]
         [] HasMagic(b) /\ ~Header(b) -> [s EXCEPT !.end = "fail"]
         [] b.seq # s.seq -> [s EXCEPT !.end = IF Later(b.seq, s.seq) THEN "fail" ELSE "stop"]
         [] b.t = "tornheader" -> [s EXCEPT !.end = "fail"]
         [] b.t = "desc" /\ bad # {} ->
              [s EXCEPT !.end = IF s.used + Min(bad) >= LogLen THEN "stop" ELSE "fail"]
         [] b.t = "desc" /\ bad = {} ->
              [past(Len(b.tags) + 1) EXCEPT !.images = @ \o
                  [k \in DOMAIN b.tags |-> [block |-> b.tags[k].block,
                                            val |-> b.tags[k].image.val, ord |-> s.tx]]]
         [] b.t = "revoke" ->
              [past(1) EXCEPT !.revokes = @ \cup {[block |-> h, ord |-> s.tx] : h \in b.blocks}]
         [] b.t = "commit" ->
              [past(1) EXCEPT !.tx = @ + 1, !.seq = (@ + 1) % SeqMod,
                              !.kept = [images |-> s.images, revokes |-> s.revokes]]

\* The committed images and revokes; an incomplete tail is dropped.
Analyze(super, l) ==
    LET none == [images |-> << >>, revokes |-> {}]
        start == [cur |-> super.tail, seq |-> super.seq, used |-> 0, tx |-> 0,
                  images |-> << >>, revokes |-> {}, kept |-> none, end |-> "run"]
        scan[n \in 0 .. LogLen + 1] ==
            IF n = 0 THEN start
            ELSE Only({IF s.end = "run" THEN ScanBlock(l, s) ELSE s : s \in {scan[n - 1]}})
    IN IF super.tail = 0
       THEN [ok |-> TRUE, next |-> super.seq, images |-> << >>, revokes |-> {}]
       ELSE Only({[ok |-> s.end # "fail", next |-> s.seq,
                   images |-> s.kept.images, revokes |-> s.kept.revokes] : s \in {scan[LogLen + 1]}})

\* j_revoked
Revoked(p, k) == \E r \in p.revokes : r.block = p.images[k].block /\ r.ord >= p.images[k].ord

\* The unrevoked images of block h, in log order.
ImagesOf(p, h) ==
    LET live == {k \in DOMAIN p.images : p.images[k].block = h /\ ~Revoked(p, k)}
        nth(n) == CHOOSE k \in live : Cardinality({j \in live : j < k}) = n - 1
    IN [n \in 1 .. Cardinality(live) |-> p.images[nth(n)].val]

\* jbd2_preview_read_sectors: the home block as replay would leave it.
Preview(p, h) == LET s == ImagesOf(p, h) IN IF s = << >> THEN home[h] ELSE s[Len(s)]

--------------------------------------------------------------------------
(* Mount: analysis, replay, and the writer opened on the empty log. *)

NoPlan == [ok |-> FALSE, next |-> 0, images |-> << >>, revokes |-> {}]
NoCredits == [metadata |-> 0, data |-> 0, revokes |-> 0]
Idle(head, seq) == [state |-> "IDLE", head |-> head, seq |-> seq, end |-> 0, credits |-> NoCredits,
                    meta |-> << >>, data |-> << >>, revokes |-> {}]
NoWriter == [Idle(0, 0) EXCEPT !.state = "NONE"]

\* jbd2_analyze, then jbd2_writer_open when there is no active log.
Mount ==
    /\ mode = "off"
    /\ LET p == Analyze(sb, log)
           head == IF sb.head = 0 THEN 1 ELSE sb.head
       IN IF ~p.ok \/ (sb.tail = 0 /\ head \notin Pos)
          THEN mode' = "refused" /\ UNCHANGED <<plan, w>>
          ELSE IF sb.tail = 0
          THEN mode' = "up" /\ w' = Idle(head, sb.seq) /\ UNCHANGED plan
          ELSE mode' = "replay" /\ plan' = p /\ UNCHANGED w
    /\ UNCHANGED <<device, step, commits, cuts>>

\* jbd2_replay: the images home, in log order, ...
ReplayHome ==
    /\ mode = "replay" /\ step = "none"
    /\ LET written == {h \in Home : ImagesOf(plan, h) # << >>}
       IN WriteHome([h \in written |-> ImagesOf(plan, h)], lostHome)
    /\ step' = "home"
    /\ UNCHANGED <<sb, log, lostSb, lostLog, mode, plan, w, commits, cuts>>

\* ... flushed; the superblock written with an empty log ...
ReplayClear ==
    /\ mode = "replay" /\ step = "home"
    /\ WriteSb([seq |-> plan.next, tail |-> 0, head |-> 1], {})
    /\ Barrier
    /\ step' = "clear"
    /\ UNCHANGED <<log, home, mode, plan, w, commits, cuts>>

\* ... and flushed; jbd2_release.
ReplayDone ==
    /\ mode = "replay" /\ step = "clear"
    /\ Flush
    /\ mode' = "off" /\ plan' = NoPlan /\ step' = "none"
    /\ UNCHANGED <<sb, log, home, w, commits, cuts>>

--------------------------------------------------------------------------
(* The writer. *)

jw_blocks(images, revokes) ==
    images + ((images + Tags - 1) \div Tags) + (IF revokes = 0 THEN 0 ELSE 1) + 1

Begin(c) ==
    /\ mode = "up" /\ w.state = "IDLE" /\ commits < MaxCommits
    /\ c.metadata # 0 \/ c.revokes # 0
    /\ jw_blocks(c.metadata, c.revokes) <= LogLen
    /\ w' = [w EXCEPT !.state = "STAGING", !.credits = c]
    /\ commits' = commits + 1
    /\ UNCHANGED <<device, mode, plan, step, cuts>>

Blocks(images) == {images[k].block : k \in DOMAIN images}

\* A second image of a block replaces the first; a new one takes a credit.
Staged(images, credit, b, v) ==
    IF b \in Blocks(images)
    THEN {[k \in DOMAIN images |-> IF images[k].block = b THEN [block |-> b, val |-> v] ELSE images[k]]}
    ELSE IF Len(images) < credit THEN {Append(images, [block |-> b, val |-> v])} ELSE {}

\* The blocks that a metadata image may not name.
NotForMetadata == Blocks(w.data) \cup w.revokes

\* jbd2_writer_metadata: refused for a block staged as data or revoked.
Metadata(b, v) ==
    /\ w.state = "STAGING"
    /\ b \notin NotForMetadata
    /\ \E m \in Staged(w.meta, w.credits.metadata, b, v) : w' = [w EXCEPT !.meta = m]
    /\ UNCHANGED <<device, mode, plan, step, commits, cuts>>

\* jbd2_writer_data
Data(b, v) ==
    /\ w.state = "STAGING"
    /\ b \notin Blocks(w.meta) \cup w.revokes
    /\ \E d \in Staged(w.data, w.credits.data, b, v) : w' = [w EXCEPT !.data = d]
    /\ UNCHANGED <<device, mode, plan, step, commits, cuts>>

\* jbd2_writer_revoke
RevokeBlock(b) ==
    /\ w.state = "STAGING"
    /\ b \notin Blocks(w.meta) \cup Blocks(w.data) \cup w.revokes
    /\ Cardinality(w.revokes) < w.credits.revokes
    /\ w' = [w EXCEPT !.revokes = @ \cup {b}]
    /\ UNCHANGED <<device, mode, plan, step, commits, cuts>>

Discarded == [w EXCEPT !.state = "IDLE", !.meta = << >>, !.data = << >>, !.revokes = {}]

Abort ==
    /\ w.state = "STAGING"
    /\ w' = Discarded
    /\ UNCHANGED <<device, mode, plan, step, commits, cuts>>

\* A batch of home writes, one per staged image.
ToHome(images) ==
    [b \in Blocks(images) |->
        <<images[CHOOSE k \in DOMAIN images : images[k].block = b].val>>]

\* Descriptors, each followed by its images, then the revoke block.
Records ==
    LET n == Len(w.meta)
        groups == (n + Tags - 1) \div Tags
        tag(k) == [block |-> w.meta[k].block, image |-> Image(w.meta[k].val)]
        block(p) == LET g == p \div (Tags + 1)  r == p % (Tags + 1)
                    IN IF r # 0 THEN Image(w.meta[g * Tags + r].val)
                       ELSE Desc(w.seq, [j \in 1 .. Min({Tags, n - g * Tags}) |-> tag(g * Tags + j)])
    IN [p \in 1 .. n + groups |-> block(p - 1)]
       \o (IF w.revokes = {} THEN << >> ELSE <<Revoke(w.seq, w.revokes)>>)

CommitPos == Advance(w.head, Len(Records))

\* jbd2_writer_commit: ordered data first, ...
CommitData ==
    /\ w.state = "STAGING"
    /\ w.meta # << >> \/ w.revokes # {}
    /\ w' = [w EXCEPT !.state = "COMMITTING"]
    /\ WriteHome(ToHome(w.data), lostHome)
    /\ step' = "data"
    /\ UNCHANGED <<sb, log, lostSb, lostLog, mode, plan, commits, cuts>>

\* ... flushed if there was any; the records and a zeroed commit block ...
CommitLog ==
    /\ w.state = "COMMITTING" /\ step = "data"
    /\ WriteLog([i \in {Advance(w.head, p - 1) : p \in DOMAIN Records} \cup {CommitPos} |->
                    IF i = CommitPos THEN Zero
                    ELSE Records[((i - w.head) % LogLen) + 1]])
    /\ lostHome' = IF w.data = << >> THEN lostHome ELSE Clean(Home)
    /\ step' = "log"
    /\ UNCHANGED <<sb, home, lostSb, mode, plan, w, commits, cuts>>

\* ... flushed; the superblock's tail on them ...
CommitTail ==
    /\ w.state = "COMMITTING" /\ step = "log"
    /\ WriteSb([sb EXCEPT !.seq = w.seq, !.tail = w.head], {})
    /\ Barrier
    /\ step' = "tail"
    /\ UNCHANGED <<log, home, mode, plan, w, commits, cuts>>

\* ... flushed; the commit record ...
CommitRecord ==
    /\ w.state = "COMMITTING" /\ step = "tail"
    /\ log' = [log EXCEPT ![CommitPos] = Commit(w.seq)]
    /\ lostLog' = [i \in Pos |-> IF i = CommitPos THEN {log[i]} \cup Tear(log[i], Commit(w.seq)) ELSE {}]
    /\ lostSb' = {} /\ lostHome' = Clean(Home)
    /\ step' = "commit"
    /\ UNCHANGED <<sb, home, mode, plan, w, commits, cuts>>

\* ... flushed: the transaction is reported DURABLE.
CommitDone ==
    /\ w.state = "COMMITTING" /\ step = "commit"
    /\ Flush
    /\ w' = [w EXCEPT !.state = "DURABLE", !.end = Advance(CommitPos, 1)]
    /\ step' = "durable"
    /\ UNCHANGED <<sb, log, home, mode, plan, commits, cuts>>

\* jbd2_writer_checkpoint: the metadata home, ...
CheckpointHome ==
    /\ w.state = "DURABLE"
    /\ w' = [w EXCEPT !.state = "CHECKPOINTING"]
    /\ WriteHome(ToHome(w.meta), lostHome)
    /\ step' = "home"
    /\ UNCHANGED <<sb, log, lostSb, lostLog, mode, plan, commits, cuts>>

\* ... flushed; the log emptied past it ...
CheckpointClear ==
    /\ w.state = "CHECKPOINTING" /\ step = "home"
    /\ WriteSb([seq |-> (w.seq + 1) % SeqMod, tail |-> 0, head |-> w.end], {})
    /\ Barrier
    /\ step' = "clear"
    /\ UNCHANGED <<log, home, mode, plan, w, commits, cuts>>

\* ... and flushed: the next transaction may begin.
CheckpointDone ==
    /\ w.state = "CHECKPOINTING" /\ step = "clear"
    /\ Flush
    /\ w' = [Discarded EXCEPT !.head = w.end, !.seq = (@ + 1) % SeqMod]
    /\ step' = "none"
    /\ UNCHANGED <<sb, log, home, mode, plan, commits, cuts>>

\* A write or a flush fails: the writer is FAILED, the replay plan poisoned.
IoError ==
    /\ \/ /\ mode = "up" /\ w.state \in {"COMMITTING", "CHECKPOINTING"}
          /\ w' = [w EXCEPT !.state = "FAILED"] /\ UNCHANGED mode
       \/ /\ mode = "replay" /\ step # "none"
          /\ mode' = "failed" /\ UNCHANGED w
    /\ UNCHANGED <<device, plan, step, commits, cuts>>

\* jbd2_writer_close: memory only.  After a failure the owner waits for a
\* restart (jbd2.h), so only a power cut ends that state.
Close ==
    /\ mode = "up" /\ w.state \in {"IDLE", "STAGING", "DURABLE"}
    /\ mode' = "off" /\ w' = NoWriter /\ step' = "none"
    /\ UNCHANGED <<device, plan, commits, cuts>>

\* Every way the unflushed writes may have gone.
Survivors(now, lost) ==
    FoldSet(LAMBDA x, S : {[f EXCEPT ![x] = v] : f \in S, v \in {now[x]} \cup lost[x]},
            {now}, {x \in DOMAIN now : lost[x] # {}})

PowerCut ==
    /\ mode # "off" /\ cuts < MaxCuts
    /\ sb' \in {sb} \cup lostSb
    /\ log' \in Survivors(log, lostLog)
    /\ home' \in Survivors(home, lostHome)
    /\ NothingLost
    /\ mode' = "off" /\ plan' = NoPlan /\ w' = NoWriter /\ step' = "none"
    /\ cuts' = cuts + 1
    /\ UNCHANGED commits

--------------------------------------------------------------------------
Init ==
    /\ \E d \in InitDisks : sb = d.sb /\ log = d.log /\ home = d.home
    /\ lostSb = {} /\ lostLog = Clean(Pos) /\ lostHome = Clean(Home)
    /\ mode = "off" /\ plan = NoPlan /\ w = NoWriter /\ step = "none"
    /\ commits = 0 /\ cuts = 0

Next ==
    \/ Mount \/ ReplayHome \/ ReplayClear \/ ReplayDone
    \/ \E c \in CreditSet : Begin(c)
    \/ \E b \in Home, v \in Val : Metadata(b, v) \/ Data(b, v)
    \/ \E b \in Home : RevokeBlock(b)
    \/ Abort
    \/ CommitData \/ CommitLog \/ CommitTail \/ CommitRecord \/ CommitDone
    \/ CheckpointHome \/ CheckpointClear \/ CheckpointDone
    \/ IoError \/ Close \/ PowerCut

Spec == Init /\ [][Next]_vars

--------------------------------------------------------------------------
(* Properties *)

\* A journal that this writer left behind, at whatever point the power
\* failed and however often, is never refused by jbd2_analyze or by
\* jbd2_writer_open: a refusal (-VFS_EIO) makes the file system unmountable.
NeverRefused == mode # "refused"

\* No block that may be found in the log carries a sequence number later
\* than the one a scan from any superblock that may be found ends with:
\* jbd2_analyze fails on a "future ID", and a record that runs ahead of the
\* durable superblock would be one.
NoFutureRecord ==
    \A s \in {sb} \cup lostSb :
        LET next == Analyze(s, log).next
        IN \A i \in Pos : \A b \in {log[i]} \cup lostLog[i] :
            Header(b) /\ b.seq # next => ~Later(b.seq, next)

\* The home blocks as the next recovery will leave them.  While a commit
\* record is written and not flushed, its transaction, the only one in the
\* log, is undecided and does not count.
Logical ==
    IF sb.tail = 0 \/ step = "commit" THEN home
    ELSE Only({IF p.ok THEN [h \in Home |-> Preview(p, h)] ELSE home : p \in {Analyze(sb, log)}})

Phase == IF mode # "up" \/ step = "none" THEN "idle"
         ELSE IF step \in {"data", "log", "tail", "commit"} THEN "submitted" ELSE "durable"

Contents(images) == [b \in Blocks(images) |-> ToHome(images)[b][1]]

Atomic == INSTANCE Store WITH
    Content <- Val \cup {Torn},
    store <- Logical,
    phase <- Phase,
    pending <- IF Phase = "submitted" THEN [meta |-> Contents(w.meta), data |-> Contents(w.data)]
               ELSE [meta |-> << >>, data |-> << >>]

\* What the recovery of the disk first found must leave, stated with the disk
\* and not computed from its log.
AsCommitted ==
    \E d \in InitDisks : sb = d.sb /\ log = d.log /\ home = d.home /\ Logical = d.store

\* The journal implements the atomic store: all of a transaction's metadata
\* with its ordered data or none of it, DURABLE for good, under power cuts,
\* torn blocks, I/O errors, replay interrupted and repeated.  A log found at
\* the first mount is recovered to what had been committed: an image revoked by
\* a later transaction stays out, one logged again after the revoke goes in
\* (j_revoked).
AtomicStore == AsCommitted /\ Atomic!StoreSpec
=============================================================================
