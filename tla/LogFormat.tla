------------------------------ MODULE LogFormat ------------------------------
(***************************************************************************)
(* The layout of biscuit's file-system journal (fs/log.go) and what a      *)
(* reader computes from it.  A log of loglen slots is a circular buffer    *)
(* addressed by ever-growing indices; a transaction that starts at index i *)
(* is a descriptor ("commit block") at i, then an optional block of revoke *)
(* records, then one copy of each logged block.                            *)
(*                                                                         *)
(* A page is a record [desc, data].  A descriptor or revoke page has its   *)
(* destination words in desc (without the EndDescriptor word that stops    *)
(* the reader); a copied block has its contents in data and desc = << >>.  *)
(***************************************************************************)
EXTENDS Integers, Sequences, FiniteSets, FiniteSetsExt

CONSTANTS LL,             \* blocks of the on-disk log, header included
          MaxDescriptor,  \* words in a descriptor block
          NoVal           \* "no contents"; not a block value

EndDescriptor == 0
DataBlk       == 0
CommitBlk     == -1
RevokeBlk     == -2
Canceled      == -2
LogOffset     == 1
NCommitBlk    == 1

loglen   == LL - LogOffset
maxtrans == IF LL \div 2 < MaxDescriptor THEN LL \div 2 ELSE MaxDescriptor

Slots       == 0 .. loglen - 1
logindex(i) == i % loglen

\* Word j (from 0) of a descriptor page; whatever lies past the last word
\* written is behind the EndDescriptor marker.
r_logdest(page, j) == IF j < Len(page.desc) THEN page.desc[j + 1] ELSE EndDescriptor

(***************************************************************************)
(* Recovery's reading of the log (installmap, revoke, install).            *)
(***************************************************************************)
\* Log blocks a transaction occupies, read off its descriptor: the reader
\* steps over the descriptor and then over one block per word.
TransLen(page) == IF page.desc = << >> THEN NCommitBlk ELSE Len(page.desc)

\* The index of the descriptor that covers index i, for the walk of
\* installmap from tail.
Descriptors(log, tail, head) ==
    LET ti[i \in tail .. head] ==
            IF i = tail THEN tail
            ELSE LET t == ti[i - 1]
                 IN  IF t + TransLen(log[logindex(t)]) = i THEN i ELSE t
    IN  ti

\* The destination of every index of tail .. head - 1: Canceled for
\* descriptors, revoke blocks and blocks that a later transaction revokes.
installmap(log, tail, head) ==
    LET ti == Descriptors(log, tail, head)
        dest == [i \in tail .. head - 1 |-> r_logdest(log[logindex(ti[i])], i - ti[i])]
        revokes == {k \in tail .. head - 1 : dest[k] = RevokeBlk}
        revoked(i) ==
            \E k \in revokes :
               /\ ti[k] > i
               /\ \E n \in 2 .. Len(log[logindex(k)].desc) :
                     log[logindex(k)].desc[n] = dest[i]
    IN  [i \in tail .. head - 1 |->
            IF ti[i] = i \/ i \in revokes \/ revoked(i) THEN Canceled ELSE dest[i]]

\* What install writes to each block of S: its last version in the log that
\* is not canceled, NoVal if the log holds none.
install(log, hdr, S) ==
    LET im == installmap(log, hdr.tail, hdr.head)
        at(b) == {i \in hdr.tail .. hdr.head - 1 : im[i] = b}
    IN  [b \in S |-> IF at(b) = {} THEN NoVal ELSE log[logindex(Max(at(b)))].data]

\* The contents of the blocks once recover() has run on this disk.
Recovered(home, log, hdr) ==
    LET new == install(log, hdr, DOMAIN home)
    IN  [b \in DOMAIN home |-> IF new[b] = NoVal THEN home[b] ELSE new[b]]

(***************************************************************************)
(* The same question asked of the in-memory log, whose slots also carry    *)
(* the type and home block of what they hold: what apply writes to blocks. *)
(***************************************************************************)
\* (Faulty variant: the last slot is not applied.)
apply_short(memlog, tail, head, S) ==
    LET at(b) == {i \in tail + 1 .. head - 2 :
                    /\ memlog[logindex(i)].type = DataBlk
                    /\ memlog[logindex(i)].block = b}
    IN  [b \in S |-> IF at(b) = {} THEN NoVal ELSE memlog[logindex(Max(at(b)))].data]
apply(memlog, tail, head, S) ==
    LET at(b) == {i \in tail + 1 .. head - 1 :
                    /\ memlog[logindex(i)].type = DataBlk
                    /\ memlog[logindex(i)].block = b}
    IN  [b \in S |-> IF at(b) = {} THEN NoVal ELSE memlog[logindex(Max(at(b)))].data]

==============================================================================
