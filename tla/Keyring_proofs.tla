-------------------------- MODULE Keyring_proofs ---------------------------
(***************************************************************************)
(* Theorems about Keyring for commands that run one after another, each of *)
(* which may stop between any two of its file operations, and whatever the *)
(* number of keys, commands and crashes.  Two commands at once are         *)
(* another matter: nothing takes a lock, and they can lose a private key   *)
(* or a revocation (see the README).                                       *)
(***************************************************************************)
EXTENDS Keyring, TLAPS

\* No two commands run at once: nothing in keyring.py takes a lock.
OneCommand == \A p, q \in Procs : p = q

---------------------------------------------------------------------------
(* The inductive invariant.                                                *)

Rings == [Keys -> [status : Statuses \cup {"none"}, nb : Nat, na : Nat]]

TypeInv ==
    /\ keyFile \in [key : 0..MaxKeys, whole : BOOLEAN] /\ archive \in [Keys -> 0..MaxKeys]
    /\ clock \in Nat \ {0} /\ minted \in 0..MaxKeys
    /\ pc \in [Procs -> Labels] /\ op \in [Procs -> Commands]
    /\ key \in [Procs -> 0..MaxKeys] /\ ring \in [Procs -> Rings]
    /\ stamp \in [Procs -> Nat] /\ \A p \in Procs : stamp[p] <= clock
    /\ written \subseteq 1..minted /\ revoked \subseteq Keys
    /\ \A s \in seals : s.key \in Keys /\ s.at \in Nat /\ s.at <= clock /\ Accepted(s.carried, s.at)

\* What is in the key file is no archived key, and a key is archived under its own name.
FileInv ==
    /\ \A k \in Keys : archive[k] \in {0, k} /\ (archive[k] = k => k \in written /\ keyFile.key # k)
    /\ keyFile.key = 0 => keyFile = NoFile
    /\ keyFile.key # 0 => (keyFile.whole <=> keyFile.key \in written)
    /\ PrivateKeysKept

\* Where the key of a command is, by how far the command is.
Loaded  == {"adopt", "enrol", "save_first", "flush_first", "act", "sign", "add", "save", "flush"}
Minting == {"create", "recreate", "write", "rewrite"}
KeyInv(p) ==
    /\ pc[p] \in Loaded => keyFile = [key |-> key[p], whole |-> TRUE] /\ key[p] \in Keys
    /\ pc[p] \in {"write", "rewrite"} => keyFile = [key |-> key[p], whole |-> FALSE]
    /\ pc[p] \in {"create", "recreate", "reload"} => keyFile = NoFile
    /\ pc[p] \in Minting => key[p] \notin written
    /\ pc[p] \in Minting \cup {"add"} => key[p] = minted /\ key[p] \in Keys

\* A ring that may be saved: it names no key that is not written, an active key has no
\* end, a retired one is archived and its window runs forward, the revoked keys are
\* revoked, and every seal is inside its key's window.
RingOK(r, w, c, a, v, z) ==
    /\ r \in Rings
    /\ \A k \in Keys : Has(r, k) => k \in w
    /\ \A k \in Keys : r[k].status = "active" => r[k].na = 0 /\ r[k].nb <= c
    /\ \A k \in Keys : r[k].status = "retired" => a[k] = k /\ r[k].nb <= r[k].na
    /\ \A k \in v : r[k].status = "revoked"
    /\ \A s \in z : r[s.key].status = "revoked" \/ Accepted(r[s.key], s.at)

\* Every retired key has a later one whose window opens when its own closes, but for one
\* whose successor is still to come, which opens at `when`.
Follows(r, k) == \E j \in Keys : Has(r, j) /\ j > k /\ r[j].nb = r[k].na
Met(r)          == \A k \in Keys : r[k].status = "retired" => Follows(r, k)
MetBut(r, when) == \A k \in Keys : r[k].status = "retired" => Follows(r, k) \/ r[k].na = when

DiskInv == ringFile = Torn \/ (/\ RingOK(ringFile, written, clock, archive, revoked, seals)
                               /\ Met(ringFile))

\* A command's copy of the ring, by how far the command is.
Rotating == {"reload", "recreate", "rewrite", "add"}
Saving   == {"save_first", "flush_first", "act", "sign", "save", "flush"}
CopyInv(p) ==
    /\ pc[p] \in Rotating \cup Saving => RingOK(ring[p], written, clock, archive, revoked, seals)
    /\ pc[p] \in Saving => Met(ring[p])
    /\ pc[p] \in Rotating => MetBut(ring[p], stamp[p]) /\ op[p].name = "rotate"
    /\ pc[p] \in Rotating \ {"reload"} => ~ Has(ring[p], key[p])
    /\ pc[p] \in {"save_first", "flush_first", "act", "sign"} => Has(ring[p], key[p])
    /\ pc[p] \in {"act", "sign"} => ringFile = ring[p]
    /\ pc[p] \in {"save", "flush"} /\ op[p].name = "revoke" => ring[p][op[p].of].status = "revoked"

IInv == TypeInv /\ FileInv /\ DiskInv /\ \A p \in Procs : KeyInv(p) /\ CopyInv(p)
---------------------------------------------------------------------------
(* Lemmas about rings.                                                     *)

\* A ring stays right while the clock goes on and more keys are written and archived.
LEMMA RingKept ==
  ASSUME NEW r, NEW v, NEW z, NEW w, NEW w2, w \subseteq w2, NEW c \in Nat, NEW c2 \in Nat, c <= c2,
         NEW a, NEW a2, \A k \in Keys : a[k] = k => a2[k] = k, RingOK(r, w, c, a, v, z)
  PROVE  RingOK(r, w2, c2, a2, v, z)
<1>1. \A k \in Keys : r[k].nb \in Nat
  BY DEF RingOK, Rings
<1>2. \A k \in Keys : r[k].status = "active" => r[k].na = 0 /\ r[k].nb <= c2
  BY <1>1 DEF RingOK
<1> QED
  BY <1>2 DEF RingOK

\* A key joins a ring that did not have it.
LEMMA RingAdds ==
  ASSUME NEW r, NEW w, NEW c \in Nat, NEW a, NEW v, NEW z, RingOK(r, w, c, a, v, z),
         v \subseteq Keys, \A s \in z : s.key \in Keys,
         NEW k \in Keys, k \in w, ~ Has(r, k), NEW when \in Nat, when <= c
  PROVE  LET r2 == [r EXCEPT ![k] = Record("active", when, 0)]
         IN  /\ RingOK(r2, w, c, a, v, z) /\ Has(r2, k)
             /\ Met(r) => Met(r2)
             /\ MetBut(r, when) /\ (\A j \in Keys : Has(r, j) => j < k) => Met(r2)
<1> DEFINE rec == Record("active", when, 0)
           r2  == [r EXCEPT ![k] = rec]
<1>1. r \in Rings /\ rec.status = "active" /\ rec.nb = when /\ rec.na = 0
  BY DEF RingOK, Record
<1>2. rec \in [status : Statuses \cup {"none"}, nb : Nat, na : Nat]
  BY DEF Record, Statuses
<1> HIDE DEF rec
<1>3. r2 \in Rings /\ r2[k] = rec /\ \A j \in Keys : j # k => r2[j] = r[j]
  BY <1>1, <1>2 DEF Rings
<1> HIDE DEF r2
<1>4. Has(r2, k) /\ \A j \in Keys : Has(r, j) => j # k /\ Has(r2, j) /\ r2[j] = r[j]
  BY <1>1, <1>3 DEF Has, Statuses
<1>5. RingOK(r2, w, c, a, v, z)
  <2>1. \A j \in Keys : Has(r2, j) => j \in w
    BY <1>3 DEF RingOK, Has
  <2>2. \A j \in Keys : r2[j].status = "active" => r2[j].na = 0 /\ r2[j].nb <= c
    BY <1>1, <1>3 DEF RingOK
  <2>3. \A j \in Keys : r2[j].status = "retired" => a[j] = j /\ r2[j].nb <= r2[j].na
    BY <1>1, <1>3 DEF RingOK
  <2>4. \A j \in v : r2[j].status = "revoked"
    BY <1>4 DEF RingOK, Has, Statuses
  <2>5. \A s \in z : r2[s.key].status = "revoked" \/ Accepted(r2[s.key], s.at)
    <3>1. \A s \in z : Has(r, s.key)
      BY DEF RingOK, Accepted, Has, Statuses
    <3> QED
      BY <1>4, <3>1 DEF RingOK
  <2> QED
    BY <1>3, <2>1, <2>2, <2>3, <2>4, <2>5 DEF RingOK
<1>6. \A j \in Keys : r2[j].status = "retired" => r2[j] = r[j] /\ Has(r, j)
  BY <1>1, <1>3 DEF Has, Statuses
<1>7. \A j \in Keys : Follows(r, j) /\ r2[j] = r[j] => Follows(r2, j)
  BY <1>4 DEF Follows
<1>8. Met(r) => Met(r2)
  BY <1>6, <1>7 DEF Met
<1>9. ASSUME MetBut(r, when), \A j \in Keys : Has(r, j) => j < k PROVE Met(r2)
  <2> SUFFICES ASSUME NEW j \in Keys, r2[j].status = "retired" PROVE Follows(r2, j)
    BY DEF Met
  <2>1. r2[j] = r[j] /\ j < k
    BY <1>6, <1>9
  <2>2. Follows(r, j) \/ r[j].na = when
    BY <1>9, <2>1 DEF MetBut
  <2>3. CASE r[j].na = when
    <3>1. k > j
      BY <2>1 DEF Keys
    <3> QED
      BY <1>1, <1>3, <1>4, <2>1, <2>3, <3>1 DEF Follows
  <2> QED
    BY <1>7, <2>1, <2>2, <2>3
<1> QED
  BY <1>4, <1>5, <1>8, <1>9 DEF r2, rec

\* The record of a key is changed but for the start of its window, which is what its
\* predecessor's successor needs.
LEMMA FollowsStill ==
  ASSUME NEW r \in Rings, NEW k \in Keys, Has(r, k), NEW rec,
         rec \in [status : Statuses, nb : Nat, na : Nat], rec.nb = r[k].nb
  PROVE  \A j \in Keys : j # k /\ Follows(r, j) => Follows([r EXCEPT ![k] = rec], j)
<1> DEFINE r2 == [r EXCEPT ![k] = rec]
<1>1. r2[k] = rec /\ \A j \in Keys : j # k => r2[j] = r[j]
  BY DEF Rings
<1> HIDE DEF r2
<1>2. \A j \in Keys : Has(r, j) => Has(r2, j) /\ r2[j].nb = r[j].nb
  BY <1>1 DEF Has
<1>3. \A j \in Keys : j # k /\ Follows(r, j) => Follows(r2, j)
  BY <1>1, <1>2 DEF Follows
<1> QED
  BY <1>3 DEF r2

\* A key is revoked in a ring that has it.
LEMMA RingRevokes ==
  ASSUME NEW r, NEW w, NEW c \in Nat, NEW a, NEW v, NEW z, RingOK(r, w, c, a, v, z), Met(r),
         v \subseteq Keys, \A s \in z : s.key \in Keys, NEW k \in Keys, Has(r, k)
  PROVE  LET r2 == [r EXCEPT ![k] = Record("revoked", r[k].nb, IF r[k].na = 0 THEN c ELSE r[k].na)]
         IN  RingOK(r2, w, c, a, v, z) /\ Met(r2) /\ r2[k].status = "revoked"
<1> DEFINE rec == Record("revoked", r[k].nb, IF r[k].na = 0 THEN c ELSE r[k].na)
           r2  == [r EXCEPT ![k] = rec]
<1>1. r \in Rings /\ rec.status = "revoked" /\ rec.nb = r[k].nb
  BY DEF RingOK, Record
<1>2. rec \in [status : Statuses, nb : Nat, na : Nat]
  BY <1>1 DEF Record, Statuses, Rings
<1> HIDE DEF rec
<1>3. r2 \in Rings /\ r2[k] = rec /\ \A j \in Keys : j # k => r2[j] = r[j]
  BY <1>1, <1>2 DEF Rings
<1>4. \A j \in Keys : j # k /\ Follows(r, j) => Follows(r2, j)
  BY <1>1, <1>2, FollowsStill
<1> HIDE DEF r2
<1>5. RingOK(r2, w, c, a, v, z)
  <2>1. \A j \in Keys : Has(r2, j) => j \in w
    BY <1>3 DEF RingOK, Has
  <2>2. \A j \in Keys : r2[j].status = "active" => r2[j].na = 0 /\ r2[j].nb <= c
    BY <1>1, <1>3 DEF RingOK
  <2>3. \A j \in Keys : r2[j].status = "retired" => a[j] = j /\ r2[j].nb <= r2[j].na
    BY <1>1, <1>3 DEF RingOK
  <2>4. \A j \in v : r2[j].status = "revoked"
    BY <1>1, <1>3 DEF RingOK
  <2>5. \A s \in z : r2[s.key].status = "revoked" \/ Accepted(r2[s.key], s.at)
    BY <1>1, <1>3 DEF RingOK
  <2> QED
    BY <1>3, <2>1, <2>2, <2>3, <2>4, <2>5 DEF RingOK
<1>6. Met(r2)
  BY <1>1, <1>3, <1>4 DEF Met
<1> QED
  BY <1>1, <1>3, <1>5, <1>6 DEF r2, rec

\* A key is retired in a ring that has it, when its file is archived: if it was active
\* its window closes now, later than every seal made with it.
LEMMA RingRetires ==
  ASSUME NEW r, NEW w, NEW c \in Nat \ {0}, NEW a, NEW v, NEW z, RingOK(r, w, c, a, v, z), Met(r),
         v \subseteq Keys, \A s \in z : s.key \in Keys /\ s.at \in Nat /\ s.at <= c,
         NEW k \in Keys, Has(r, k), a[k] = k
  PROVE  LET r2 == [r EXCEPT ![k] = Retired(r[k], c)]
         IN  RingOK(r2, w, c, a, v, z) /\ MetBut(r2, c)
<1> DEFINE rec == Retired(r[k], c)
           r2  == [r EXCEPT ![k] = rec]
<1>1. r \in Rings /\ r[k] \in [status : Statuses, nb : Nat, na : Nat]
  BY DEF RingOK, Rings, Has
<1>2. /\ r[k].status # "active" => rec = r[k]
      /\ r[k].status = "active" => rec.status = "retired" /\ rec.nb = r[k].nb /\ rec.na = c
      /\ rec.nb = r[k].nb
  BY DEF Retired, Record
<1>3. rec \in [status : Statuses, nb : Nat, na : Nat]
  BY <1>1 DEF Retired, Record, Statuses
<1> HIDE DEF rec
<1>4. r2 \in Rings /\ r2[k] = rec /\ \A j \in Keys : j # k => r2[j] = r[j]
  BY <1>1, <1>3 DEF Rings
<1>5. \A j \in Keys : j # k /\ Follows(r, j) => Follows(r2, j)
  BY <1>1, <1>2, <1>3, FollowsStill
<1> HIDE DEF r2
<1>6. CASE r[k].status # "active"
  <2>1. r2 = r
    BY <1>1, <1>2, <1>4, <1>6 DEF Rings
  <2> QED
    BY <2>1 DEF Met, MetBut, r2, rec
<1>7. CASE r[k].status = "active"
  <2>1. r[k].na = 0 /\ r[k].nb <= c
    BY <1>7 DEF RingOK
  <2>2. \A j \in Keys : Has(r2, j) => j \in w
    BY <1>4 DEF RingOK, Has
  <2>3. \A j \in Keys : r2[j].status = "active" => r2[j].na = 0 /\ r2[j].nb <= c
    BY <1>2, <1>4, <1>7 DEF RingOK
  <2>4. \A j \in Keys : r2[j].status = "retired" => a[j] = j /\ r2[j].nb <= r2[j].na
    BY <1>2, <1>4, <1>7, <2>1 DEF RingOK
  <2>5. \A j \in v : r2[j].status = "revoked"
    BY <1>2, <1>4, <1>7 DEF RingOK
  <2>6. \A s \in z : r2[s.key].status = "revoked" \/ Accepted(r2[s.key], s.at)
    <3> SUFFICES ASSUME NEW s \in z PROVE r2[s.key].status = "revoked" \/ Accepted(r2[s.key], s.at)
      OBVIOUS
    <3>1. r[s.key].status = "revoked" \/ Accepted(r[s.key], s.at)
      BY DEF RingOK
    <3>2. CASE s.key # k
      BY <1>4, <3>1, <3>2
    <3>3. CASE s.key = k
      <4>1. ~ (r[k].nb # 0 /\ s.at < r[k].nb)
        BY <1>7, <3>1, <3>3 DEF Accepted
      <4>2. ~ (rec.na # 0 /\ s.at > rec.na)
        BY <1>2, <1>7
      <4> QED
        BY <1>2, <1>4, <1>7, <3>3, <4>1, <4>2 DEF Accepted, After
    <3> QED
      BY <3>2, <3>3
  <2>7. RingOK(r2, w, c, a, v, z)
    BY <1>4, <2>2, <2>3, <2>4, <2>5, <2>6 DEF RingOK
  <2>8. MetBut(r2, c)
    BY <1>2, <1>4, <1>5, <1>7 DEF Met, MetBut
  <2> QED
    BY <2>7, <2>8 DEF r2, rec
<1> QED
  BY <1>6, <1>7
---------------------------------------------------------------------------
(* Every step preserves the invariant.                                     *)

LEMMA InitInv == Init => IInv
<1> SUFFICES ASSUME Init PROVE IInv
  OBVIOUS
<1>1. EmptyRing \in Rings /\ \A k \in Keys : ~ Has(EmptyRing, k) /\ EmptyRing[k].status = "none"
  BY DEF EmptyRing, NoRecord, Record, Rings, Has, Statuses
<1>2. MaxKeys \in Nat
  BY KeyringAssumption
<1>3. TypeInv
  <2>1. NoFile \in [key : 0..MaxKeys, whole : BOOLEAN] /\ [k \in Keys |-> 0] \in [Keys -> 0..MaxKeys]
    BY <1>2 DEF NoFile
  <2>2. NoCommand \in Commands /\ "idle" \in Labels
    BY DEF NoCommand, Commands, Labels
  <2> QED
    BY <1>1, <1>2, <2>1, <2>2 DEF Init, TypeInv
<1>4. FileInv
  <2>1. \A k \in Keys : archive[k] = 0 /\ k # 0
    BY DEF Init, Keys
  <2> QED
    BY <2>1 DEF Init, FileInv, NoFile, PrivateKeysKept
<1>5. DiskInv
  <2>1. RingOK(EmptyRing, written, clock, archive, revoked, seals)
    BY <1>1 DEF Init, RingOK
  <2> QED
    BY <1>1, <2>1 DEF Init, DiskInv, Met
<1>6. ASSUME NEW p \in Procs PROVE KeyInv(p) /\ CopyInv(p)
  <2>1. pc[p] = "idle"
    BY DEF Init
  <2> QED
    BY <2>1 DEF KeyInv, CopyInv, Loaded, Minting, Rotating, Saving
<1> QED
  BY <1>3, <1>4, <1>5, <1>6 DEF IInv

\* A command that is over, or has not read a file yet, has nothing to keep.
LEMMA NothingHeld ==
  ASSUME OneCommand, NEW p \in Procs, pc'[p] \in {"idle", "load"}
  PROVE  \A q \in Procs : KeyInv(q)' /\ CopyInv(q)'
<1> SUFFICES ASSUME NEW q \in Procs PROVE KeyInv(q)' /\ CopyInv(q)'
  OBVIOUS
<1>1. pc'[q] \in {"idle", "load"}
  BY DEF OneCommand
<1> QED
  BY <1>1 DEF KeyInv, CopyInv, Loaded, Minting, Rotating, Saving

\* What is right for the one command is right for all of them.
LEMMA OnlyOne ==
  ASSUME OneCommand, NEW p \in Procs, KeyInv(p)', CopyInv(p)'
  PROVE  \A q \in Procs : KeyInv(q)' /\ CopyInv(q)'
<1> SUFFICES ASSUME NEW q \in Procs PROVE KeyInv(q)' /\ CopyInv(q)'
  OBVIOUS
<1>1. q = p
  BY DEF OneCommand
<1> QED
  BY <1>1

\* Where the command goes.
LEMMA Gone ==
  ASSUME IInv, NEW p \in Procs, NEW label, Goto(p, label)
  PROVE  pc'[p] = label /\ (label \in Labels => pc' \in [Procs -> Labels])
  BY DEF IInv, TypeInv, Goto

\* Steps that leave the files, the keys and the history as they are.
LEMMA SameDisk ==
  ASSUME IInv, UNCHANGED <<files, clock, past>>
  PROVE  FileInv' /\ DiskInv'
<1>1. FileInv'
  BY DEF IInv, FileInv, PrivateKeysKept, files, past
<1>2. DiskInv'
  BY DEF IInv, DiskInv, files, past
<1> QED
  BY <1>1, <1>2

LEMMA TickStep == ASSUME IInv, Tick PROVE IInv'
<1>1. /\ clock' = clock + 1
      /\ UNCHANGED <<keyFile, archive, ringFile, minted, pc, op, key, ring, stamp, written, revoked, seals>>
  BY DEF Tick, files, local, past
<1>2. clock \in Nat /\ clock' \in Nat \ {0} /\ clock <= clock'
  BY <1>1 DEF IInv, TypeInv
<1>3. TypeInv'
  <2>1. \A p \in Procs : stamp[p] \in Nat /\ stamp[p] <= clock
    BY DEF IInv, TypeInv
  <2>2. \A p \in Procs : stamp[p] <= clock'
    BY <1>2, <2>1
  <2>3. \A s \in seals : s.at \in Nat /\ s.at <= clock
    BY DEF IInv, TypeInv
  <2>4. \A s \in seals : s.at <= clock'
    BY <1>2, <2>3
  <2> QED
    BY <1>1, <1>2, <2>2, <2>4 DEF IInv, TypeInv
<1>4. FileInv'
  BY <1>1 DEF IInv, FileInv, PrivateKeysKept
<1>5. ASSUME NEW r, RingOK(r, written, clock, archive, revoked, seals)
      PROVE  RingOK(r, written', clock', archive', revoked', seals')
  BY <1>1, <1>2, <1>5, RingKept
<1>6. DiskInv'
  BY <1>1, <1>5 DEF IInv, DiskInv
<1>7. \A p \in Procs : KeyInv(p)'
  BY <1>1 DEF IInv, KeyInv
<1>8. ASSUME NEW p \in Procs PROVE CopyInv(p)'
  BY <1>1, <1>5 DEF IInv, CopyInv
<1> QED
  BY <1>3, <1>4, <1>6, <1>7, <1>8 DEF IInv

LEMMA CrashStep == ASSUME OneCommand, IInv, NEW p \in Procs, Crash(p) PROVE IInv'
<1>1. /\ Goto(p, "idle") /\ UNCHANGED <<files, clock, past>>
      /\ UNCHANGED <<keyFile, archive, clock, minted, op, key, ring, stamp, written, revoked, seals>>
  BY DEF Crash, files, local, past
<1>2. pc'[p] = "idle" /\ pc' \in [Procs -> Labels]
  BY <1>1, Gone DEF Labels
<1>3. TypeInv'
  BY <1>1, <1>2 DEF IInv, TypeInv
<1> QED
  BY <1>1, <1>2, <1>3, SameDisk, NothingHeld DEF IInv

LEMMA BeginStep ==
  ASSUME OneCommand, IInv, NEW p \in Procs, NEW command \in Commands, Begin(p, command) PROVE IInv'
<1>1. /\ Goto(p, "load") /\ UNCHANGED <<files, clock, past>> /\ op' = [op EXCEPT ![p] = command]
      /\ UNCHANGED <<keyFile, archive, clock, minted, key, ring, stamp, written, revoked, seals>>
  BY DEF Begin, files, past
<1>2. pc'[p] = "load" /\ pc' \in [Procs -> Labels]
  BY <1>1, Gone DEF Labels
<1>3. TypeInv'
  BY <1>1, <1>2 DEF IInv, TypeInv
<1> QED
  BY <1>1, <1>2, <1>3, SameDisk, NothingHeld DEF IInv

\* A key is made: its number is one that no file and no ring knows.
LEMMA KeyMade ==
  ASSUME IInv, NEW p \in Procs, NEW label \in Labels, Generate(p, label)
  PROVE  /\ minted' = minted + 1 /\ minted' \in Keys /\ minted' \in 0..MaxKeys
         /\ key'[p] = minted' /\ key' \in [Procs -> 0..MaxKeys]
         /\ minted' \notin written /\ written \subseteq 1..minted'
         /\ pc'[p] = label /\ pc' \in [Procs -> Labels]
<1>1. /\ minted \in 0..MaxKeys /\ MaxKeys \in Nat /\ written \subseteq 1..minted
      /\ key \in [Procs -> 0..MaxKeys]
  BY KeyringAssumption DEF IInv, TypeInv
<1>2. /\ minted < MaxKeys /\ minted' = minted + 1 /\ key' = [key EXCEPT ![p] = minted + 1]
      /\ Goto(p, label)
  BY DEF Generate
<1>3. minted' \in Keys /\ minted' \in 0..MaxKeys /\ minted' \notin written /\ written \subseteq 1..minted'
  BY <1>1, <1>2 DEF Keys
<1> QED
  BY <1>1, <1>2, <1>3, Gone

LEMMA LoadKeyStep == ASSUME OneCommand, IInv, NEW p \in Procs, LoadKey(p) PROVE IInv'
<1>1. /\ UNCHANGED <<files, clock, past>>
      /\ UNCHANGED <<keyFile, archive, clock, op, ring, stamp, written, revoked, seals>>
  BY DEF LoadKey, files, past
<1>2. FileInv' /\ DiskInv'
  BY <1>1, SameDisk
<1>3. CASE keyFile = NoFile
  <2>1. Generate(p, "create")
    BY <1>3 DEF LoadKey
  <2>2. /\ minted' \in Keys /\ minted' \in 0..MaxKeys /\ key'[p] = minted' /\ key' \in [Procs -> 0..MaxKeys]
        /\ minted' \notin written /\ written \subseteq 1..minted'
        /\ pc'[p] = "create" /\ pc' \in [Procs -> Labels]
    BY <2>1, KeyMade DEF Labels
  <2>3. TypeInv'
    BY <1>1, <2>2 DEF IInv, TypeInv
  <2>4. KeyInv(p)' /\ CopyInv(p)'
    BY <1>1, <1>3, <2>2 DEF KeyInv, CopyInv, Loaded, Minting, Rotating, Saving
  <2> QED
    BY <1>2, <2>3, <2>4, OnlyOne DEF IInv
<1>4. CASE keyFile # NoFile /\ keyFile.whole
  <2>1. key' = [key EXCEPT ![p] = keyFile.key] /\ Goto(p, "adopt") /\ minted' = minted
    BY <1>4 DEF LoadKey
  <2>2. pc'[p] = "adopt" /\ pc' \in [Procs -> Labels]
    BY <2>1, Gone DEF Labels
  <2>3. keyFile.key \in Keys /\ keyFile = [key |-> keyFile.key, whole |-> TRUE]
    <3>1. keyFile.key # 0 /\ keyFile \in [key : 0..MaxKeys, whole : BOOLEAN]
      BY <1>4 DEF IInv, FileInv, TypeInv
    <3> QED
      BY <1>4, <3>1, KeyringAssumption DEF Keys
  <2>4. key' \in [Procs -> 0..MaxKeys] /\ key'[p] = keyFile.key
    BY <2>1 DEF IInv, TypeInv
  <2>5. TypeInv'
    BY <1>1, <2>1, <2>2, <2>4 DEF IInv, TypeInv
  <2>6. KeyInv(p)' /\ CopyInv(p)'
    BY <1>1, <2>2, <2>3, <2>4 DEF KeyInv, CopyInv, Loaded, Minting, Rotating, Saving
  <2> QED
    BY <1>2, <2>5, <2>6, OnlyOne DEF IInv
<1>5. CASE keyFile # NoFile /\ ~ keyFile.whole
  <2>1. Goto(p, "idle") /\ UNCHANGED <<key, minted>>
    BY <1>5 DEF LoadKey
  <2>2. pc'[p] = "idle" /\ pc' \in [Procs -> Labels]
    BY <2>1, Gone DEF Labels
  <2>3. TypeInv'
    BY <1>1, <2>1, <2>2 DEF IInv, TypeInv
  <2> QED
    BY <1>2, <2>2, <2>3, NothingHeld DEF IInv
<1> QED
  BY <1>3, <1>4, <1>5

LEMMA LoadAgainStep == ASSUME OneCommand, IInv, NEW p \in Procs, LoadAgain(p) PROVE IInv'
<1>1. /\ UNCHANGED <<files, clock, past>> /\ pc[p] = "reload"
      /\ UNCHANGED <<keyFile, archive, clock, op, ring, stamp, written, revoked, seals>>
  BY DEF LoadAgain, files, past
<1>2. FileInv' /\ DiskInv'
  BY <1>1, SameDisk
<1>3. /\ keyFile = NoFile /\ RingOK(ring[p], written, clock, archive, revoked, seals)
      /\ MetBut(ring[p], stamp[p])
      /\ op[p].name = "rotate"
  BY <1>1 DEF IInv, KeyInv, CopyInv, Rotating
<1>4. Generate(p, "recreate")
  BY <1>3 DEF LoadAgain
<1>5. /\ minted' \in Keys /\ minted' \in 0..MaxKeys /\ key'[p] = minted' /\ key' \in [Procs -> 0..MaxKeys]
      /\ minted' \notin written /\ written \subseteq 1..minted'
      /\ pc'[p] = "recreate" /\ pc' \in [Procs -> Labels]
  BY <1>4, KeyMade DEF Labels
<1>6. TypeInv'
  BY <1>1, <1>5 DEF IInv, TypeInv
<1>7. ~ Has(ring[p], minted')
  BY <1>3, <1>5 DEF RingOK
<1>8. KeyInv(p)'
  BY <1>1, <1>3, <1>5 DEF KeyInv, Loaded, Minting
<1>9. CopyInv(p)'
  BY <1>1, <1>3, <1>5, <1>7 DEF CopyInv, Rotating, Saving
<1> QED
  BY <1>2, <1>6, <1>8, <1>9, OnlyOne DEF IInv

LEMMA CreateKeyStep == ASSUME OneCommand, IInv, NEW p \in Procs, CreateKey(p) PROVE IInv'
<1>1. /\ pc[p] \in {"create", "recreate"}
      /\ UNCHANGED <<archive, ringFile, clock, minted, op, key, ring, stamp, written, revoked, seals>>
  BY DEF CreateKey, local, world, past
<1>2. /\ keyFile = NoFile /\ key[p] \notin written /\ key[p] = minted /\ key[p] \in Keys
  BY <1>1 DEF IInv, KeyInv, Minting
<1>3. /\ keyFile' = [key |-> key[p], whole |-> FALSE]
      /\ Goto(p, IF pc[p] = "create" THEN "write" ELSE "rewrite")
  BY <1>2 DEF CreateKey
<1>4. pc'[p] = (IF pc[p] = "create" THEN "write" ELSE "rewrite") /\ pc' \in [Procs -> Labels]
  BY <1>3, Gone DEF Labels
<1>5. TypeInv'
  <2>1. keyFile' \in [key : 0..MaxKeys, whole : BOOLEAN]
    BY <1>2, <1>3 DEF IInv, TypeInv
  <2> QED
    BY <1>1, <1>4, <2>1 DEF IInv, TypeInv
<1>6. FileInv'
  <2>1. \A k \in Keys : archive'[k] \in {0, k} /\ (archive'[k] = k => k \in written' /\ keyFile'.key # k)
    BY <1>1, <1>2, <1>3 DEF IInv, FileInv
  <2>2. PrivateKeysKept'
    <3>1. \A k \in written : \E name \in Keys : archive[name] = k
      <4>1. ASSUME NEW k \in written PROVE keyFile # [key |-> k, whole |-> TRUE]
        <5>1. k # 0
          BY DEF IInv, TypeInv
        <5> QED
          BY <1>2, <5>1 DEF NoFile
      <4> QED
        BY <4>1 DEF IInv, FileInv, PrivateKeysKept
    <3> QED
      BY <1>1, <3>1 DEF PrivateKeysKept
  <2>3. keyFile'.key # 0 /\ ~ keyFile'.whole /\ keyFile'.key \notin written'
    BY <1>1, <1>2, <1>3 DEF Keys
  <2> QED
    BY <2>1, <2>2, <2>3 DEF FileInv
<1>7. DiskInv'
  BY <1>1 DEF IInv, DiskInv
<1>8. KeyInv(p)'
  BY <1>1, <1>2, <1>3, <1>4 DEF KeyInv, Loaded, Minting
<1>9. CopyInv(p)'
  BY <1>1, <1>4 DEF IInv, CopyInv, Rotating, Saving
<1> QED
  BY <1>5, <1>6, <1>7, <1>8, <1>9, OnlyOne DEF IInv

LEMMA WriteKeyStep == ASSUME OneCommand, IInv, NEW p \in Procs, WriteKey(p) PROVE IInv'
<1>1. /\ pc[p] \in {"write", "rewrite"} /\ written' = written \cup {key[p]}
      /\ Goto(p, IF pc[p] = "write" THEN "enrol" ELSE "add")
      /\ UNCHANGED <<archive, ringFile, clock, minted, op, key, ring, stamp, revoked, seals>>
  BY DEF WriteKey, local, world
<1>2. /\ keyFile = [key |-> key[p], whole |-> FALSE] /\ key[p] = minted /\ key[p] \in Keys
      /\ key[p] \notin written
  BY <1>1 DEF IInv, KeyInv, Minting
<1>3. keyFile' = [key |-> key[p], whole |-> TRUE]
  BY <1>2 DEF WriteKey
<1>4. pc'[p] = (IF pc[p] = "write" THEN "enrol" ELSE "add") /\ pc' \in [Procs -> Labels]
  BY <1>1, Gone DEF Labels
<1>5. TypeInv'
  <2>1. keyFile' \in [key : 0..MaxKeys, whole : BOOLEAN]
    BY <1>2, <1>3 DEF IInv, TypeInv
  <2>2. written' \subseteq 1..minted
    BY <1>1, <1>2 DEF IInv, TypeInv, Keys
  <2> QED
    BY <1>1, <1>4, <2>1, <2>2 DEF IInv, TypeInv
<1>6. FileInv'
  <2>1. \A k \in Keys : archive'[k] \in {0, k} /\ (archive'[k] = k => k \in written' /\ keyFile'.key # k)
    BY <1>1, <1>2, <1>3 DEF IInv, FileInv
  <2>2. PrivateKeysKept'
    BY <1>1, <1>2, <1>3 DEF IInv, FileInv, PrivateKeysKept
  <2>3. keyFile'.key # 0 /\ keyFile'.whole /\ keyFile'.key \in written'
    BY <1>1, <1>2, <1>3 DEF Keys
  <2> QED
    BY <2>1, <2>2, <2>3 DEF FileInv
<1>7. ASSUME NEW r, RingOK(r, written, clock, archive, revoked, seals)
      PROVE  RingOK(r, written', clock', archive', revoked', seals')
  BY <1>1, <1>7, RingKept DEF IInv, TypeInv
<1>8. DiskInv'
  BY <1>1, <1>7 DEF IInv, DiskInv
<1>9. KeyInv(p)'
  BY <1>1, <1>2, <1>3, <1>4 DEF KeyInv, Loaded, Minting
<1>10. CopyInv(p)'
  BY <1>1, <1>4, <1>7 DEF IInv, CopyInv, Rotating, Saving
<1> QED
  BY <1>5, <1>6, <1>8, <1>9, <1>10, OnlyOne DEF IInv

LEMMA ReadRingStep == ASSUME OneCommand, IInv, NEW p \in Procs, ReadRing(p) PROVE IInv'
<1>1. /\ pc[p] \in {"adopt", "enrol"} /\ UNCHANGED <<files, clock, past>>
      /\ UNCHANGED <<keyFile, archive, ringFile, clock, minted, op, key, stamp, written, revoked, seals>>
  BY DEF ReadRing, files, past, world
<1>2. FileInv' /\ DiskInv'
  BY <1>1, SameDisk
<1>3. /\ keyFile = [key |-> key[p], whole |-> TRUE] /\ key[p] \in Keys /\ key[p] \in written
  <2>1. keyFile = [key |-> key[p], whole |-> TRUE] /\ key[p] \in Keys
    BY <1>1 DEF IInv, KeyInv, Loaded
  <2> QED
    BY <2>1 DEF IInv, FileInv, Keys
<1>4. CASE ringFile = Torn
  <2>1. Goto(p, "idle") /\ ring' = ring
    BY <1>4 DEF ReadRing
  <2>2. pc'[p] = "idle" /\ pc' \in [Procs -> Labels]
    BY <2>1, Gone DEF Labels
  <2>3. TypeInv'
    BY <1>1, <2>1, <2>2 DEF IInv, TypeInv
  <2> QED
    BY <1>2, <2>2, <2>3, NothingHeld DEF IInv
<1>5. CASE ringFile # Torn /\ Has(ringFile, key[p])
  <2>1. ring' = [ring EXCEPT ![p] = ringFile] /\ Goto(p, "act")
    BY <1>5 DEF ReadRing
  <2>2. RingOK(ringFile, written, clock, archive, revoked, seals) /\ Met(ringFile) /\ ringFile \in Rings
    BY <1>5 DEF IInv, DiskInv, RingOK
  <2>3. pc'[p] = "act" /\ pc' \in [Procs -> Labels]
    BY <2>1, Gone DEF Labels
  <2>4. ring' \in [Procs -> Rings] /\ ring'[p] = ringFile
    BY <2>1, <2>2 DEF IInv, TypeInv
  <2>5. TypeInv'
    BY <1>1, <2>3, <2>4 DEF IInv, TypeInv
  <2>6. KeyInv(p)' /\ CopyInv(p)'
    BY <1>1, <1>3, <1>5, <2>2, <2>3, <2>4 DEF KeyInv, CopyInv, Loaded, Minting, Rotating, Saving
  <2> QED
    BY <1>2, <2>5, <2>6, OnlyOne DEF IInv
<1>6. CASE ringFile # Torn /\ ~ Has(ringFile, key[p])
  <2> DEFINE start == IF pc[p] = "enrol" THEN clock ELSE 0
             r2    == [ringFile EXCEPT ![key[p]] = Record("active", start, 0)]
  <2>1. ring' = [ring EXCEPT ![p] = r2] /\ Goto(p, "save_first")
    BY <1>6 DEF ReadRing
  <2>2. RingOK(ringFile, written, clock, archive, revoked, seals) /\ Met(ringFile)
    BY <1>6 DEF IInv, DiskInv
  <2>3. /\ start \in Nat /\ start <= clock /\ clock \in Nat
        /\ revoked \subseteq Keys /\ \A s \in seals : s.key \in Keys
    BY DEF IInv, TypeInv
  <2> HIDE DEF start
  <2>4. RingOK(r2, written, clock, archive, revoked, seals) /\ Met(r2) /\ Has(r2, key[p])
    BY <1>3, <1>6, <2>2, <2>3, RingAdds
  <2> HIDE DEF r2
  <2>5. pc'[p] = "save_first" /\ pc' \in [Procs -> Labels]
    BY <2>1, Gone DEF Labels
  <2>6. r2 \in Rings
    BY <2>4 DEF RingOK
  <2>7. ring' \in [Procs -> Rings] /\ ring'[p] = r2
    BY <2>1, <2>6 DEF IInv, TypeInv
  <2>8. TypeInv'
    BY <1>1, <2>5, <2>7 DEF IInv, TypeInv
  <2>9. KeyInv(p)' /\ CopyInv(p)'
    BY <1>1, <1>3, <2>4, <2>5, <2>7 DEF KeyInv, CopyInv, Loaded, Minting, Rotating, Saving
  <2> QED
    BY <1>2, <2>8, <2>9, OnlyOne DEF IInv
<1> QED
  BY <1>4, <1>5, <1>6

LEMMA TruncateStep == ASSUME OneCommand, IInv, NEW p \in Procs, Truncate(p) PROVE IInv'
<1>1. /\ pc[p] \in {"save_first", "save"} /\ ringFile' = Torn
      /\ Goto(p, IF pc[p] = "save_first" THEN "flush_first" ELSE "flush")
      /\ UNCHANGED <<keyFile, archive, clock, minted, op, key, ring, stamp, written, revoked, seals>>
  BY DEF Truncate, local, world, past
<1>2. pc'[p] = (IF pc[p] = "save_first" THEN "flush_first" ELSE "flush") /\ pc' \in [Procs -> Labels]
  BY <1>1, Gone DEF Labels
<1>3. TypeInv' /\ FileInv' /\ DiskInv'
  BY <1>1, <1>2 DEF IInv, TypeInv, FileInv, PrivateKeysKept, DiskInv
<1>4. KeyInv(p)'
  BY <1>1, <1>2 DEF IInv, KeyInv, Loaded, Minting
<1>5. CopyInv(p)'
  BY <1>1, <1>2 DEF IInv, CopyInv, Rotating, Saving
<1> QED
  BY <1>3, <1>4, <1>5, OnlyOne DEF IInv

LEMMA FlushStep == ASSUME OneCommand, IInv, NEW p \in Procs, Flush(p) PROVE IInv'
<1>1. /\ pc[p] \in {"flush_first", "flush"} /\ ringFile' = ring[p]
      /\ Goto(p, IF pc[p] = "flush_first" THEN "act" ELSE "idle")
      /\ revoked' = IF pc[p] = "flush" /\ op[p].name = "revoke" THEN revoked \cup {op[p].of} ELSE revoked
      /\ UNCHANGED <<keyFile, archive, clock, minted, op, key, ring, stamp, written, seals>>
  BY DEF Flush, local, world
<1>2. pc'[p] = (IF pc[p] = "flush_first" THEN "act" ELSE "idle") /\ pc' \in [Procs -> Labels]
  BY <1>1, Gone DEF Labels
<1>3. RingOK(ring[p], written, clock, archive, revoked, seals) /\ Met(ring[p])
  BY <1>1 DEF IInv, CopyInv, Saving
<1>4. /\ RingOK(ring[p], written', clock', archive', revoked', seals')
      /\ revoked' \subseteq Keys
  <2>1. CASE pc[p] = "flush" /\ op[p].name = "revoke"
    <3>1. ring[p][op[p].of].status = "revoked"
      BY <2>1 DEF IInv, CopyInv
    <3>2. op[p].of \in Keys
      BY <2>1 DEF IInv, TypeInv, Commands
    <3> QED
      BY <1>1, <1>3, <2>1, <3>1, <3>2 DEF RingOK, IInv, TypeInv
  <2>2. CASE ~ (pc[p] = "flush" /\ op[p].name = "revoke")
    BY <1>1, <1>3, <2>2 DEF IInv, TypeInv
  <2> QED
    BY <2>1, <2>2
<1>5. TypeInv'
  BY <1>1, <1>2, <1>4 DEF IInv, TypeInv
<1>6. FileInv'
  BY <1>1 DEF IInv, FileInv, PrivateKeysKept
<1>7. DiskInv'
  BY <1>1, <1>3, <1>4 DEF DiskInv
<1>8. CASE pc[p] = "flush"
  BY <1>2, <1>5, <1>6, <1>7, <1>8, NothingHeld DEF IInv
<1>9. CASE pc[p] = "flush_first"
  <2>1. KeyInv(p)'
    BY <1>1, <1>2, <1>9 DEF IInv, KeyInv, Loaded, Minting
  <2>2. Has(ring[p], key[p])
    BY <1>9 DEF IInv, CopyInv
  <2>3. CopyInv(p)'
    BY <1>1, <1>2, <1>3, <1>4, <1>9, <2>2 DEF CopyInv, Rotating, Saving
  <2> QED
    BY <1>5, <1>6, <1>7, <2>1, <2>3, OnlyOne DEF IInv
<1> QED
  BY <1>1, <1>8, <1>9

LEMMA KeygenStep == ASSUME OneCommand, IInv, NEW p \in Procs, Keygen(p) PROVE IInv'
<1>1. /\ Goto(p, "idle") /\ UNCHANGED <<files, clock, past>>
      /\ UNCHANGED <<keyFile, archive, clock, minted, op, key, ring, stamp, written, revoked, seals>>
  BY DEF Keygen, files, local, world, past
<1>2. pc'[p] = "idle" /\ pc' \in [Procs -> Labels]
  BY <1>1, Gone DEF Labels
<1>3. TypeInv'
  BY <1>1, <1>2 DEF IInv, TypeInv
<1> QED
  BY <1>1, <1>2, <1>3, SameDisk, NothingHeld DEF IInv

LEMMA RevokeStep == ASSUME OneCommand, IInv, NEW p \in Procs, Revoke(p) PROVE IInv'
<1> DEFINE k   == op[p].of
           old == ring[p][k]
           r2  == [ring[p] EXCEPT ![k] =
                      Record("revoked", old.nb, IF old.na = 0 THEN clock ELSE old.na)]
<1>1. /\ pc[p] = "act" /\ op[p].name = "revoke" /\ UNCHANGED <<files, clock, past>>
      /\ UNCHANGED <<keyFile, archive, ringFile, clock, minted, op, key, stamp, written, revoked, seals>>
  BY DEF Revoke, Acts, files, past, world
<1>2. FileInv' /\ DiskInv'
  BY <1>1, SameDisk
<1>3. /\ k \in Keys /\ ring[p] \in Rings /\ clock \in Nat
      /\ revoked \subseteq Keys /\ \A s \in seals : s.key \in Keys
  <2>1. op[p] \in Commands
    BY DEF IInv, TypeInv
  <2>2. op[p].of \in Keys
    BY <1>1, <2>1 DEF Commands
  <2> QED
    BY <2>2 DEF IInv, TypeInv
<1>4. /\ RingOK(ring[p], written, clock, archive, revoked, seals) /\ Met(ring[p])
      /\ keyFile = [key |-> key[p], whole |-> TRUE] /\ key[p] \in Keys
  BY <1>1 DEF IInv, CopyInv, KeyInv, Loaded, Saving
<1>5. CASE Has(ring[p], k)
  <2>1. ring' = [ring EXCEPT ![p] = r2] /\ Goto(p, "save")
    BY <1>3, <1>5 DEF Revoke, IInv, TypeInv
  <2>2. RingOK(r2, written, clock, archive, revoked, seals) /\ Met(r2) /\ r2[k].status = "revoked"
    BY <1>3, <1>4, <1>5, RingRevokes
  <2> HIDE DEF r2
  <2>3. pc'[p] = "save" /\ pc' \in [Procs -> Labels]
    BY <2>1, Gone DEF Labels
  <2>4. r2 \in Rings
    BY <2>2 DEF RingOK
  <2>5. ring' \in [Procs -> Rings] /\ ring'[p] = r2
    BY <2>1, <2>4 DEF IInv, TypeInv
  <2>6. TypeInv'
    BY <1>1, <2>3, <2>5 DEF IInv, TypeInv
  <2>7. KeyInv(p)'
    BY <1>1, <1>4, <2>3 DEF KeyInv, Loaded, Minting
  <2>8. CopyInv(p)'
    BY <1>1, <2>2, <2>3, <2>5 DEF CopyInv, Rotating, Saving
  <2> QED
    BY <1>2, <2>6, <2>7, <2>8, OnlyOne DEF IInv
<1>6. CASE ~ Has(ring[p], k)
  <2>1. ring' = ring /\ Goto(p, "idle")
    BY <1>6 DEF Revoke
  <2>2. pc'[p] = "idle" /\ pc' \in [Procs -> Labels]
    BY <2>1, Gone DEF Labels
  <2>3. TypeInv'
    BY <1>1, <2>1, <2>2 DEF IInv, TypeInv
  <2> QED
    BY <1>2, <2>2, <2>3, NothingHeld DEF IInv
<1> QED
  BY <1>5, <1>6

\* The file is moved to the name of its own key, which no file has yet, and the ring is
\* not saved before the successor is in it.
LEMMA RotateStep == ASSUME OneCommand, IInv, NEW p \in Procs, Rotate(p) PROVE IInv'
<1> DEFINE k  == key[p]
           r2 == [ring[p] EXCEPT ![k] = Retired(ring[p][k], clock)]
<1>1. /\ pc[p] = "act" /\ op[p].name = "rotate" /\ Goto(p, "reload")
      /\ stamp' = [stamp EXCEPT ![p] = clock]
      /\ UNCHANGED <<ringFile, clock, minted, op, key, written, revoked, seals>>
  BY DEF Rotate, Acts, past, world
<1>2. keyFile = [key |-> k, whole |-> TRUE] /\ k \in Keys /\ k # 0
  BY <1>1 DEF IInv, KeyInv, Loaded, Keys
<1>3. /\ ring[p] \in Rings /\ clock \in Nat \ {0} /\ revoked \subseteq Keys
      /\ \A s \in seals : s.key \in Keys /\ s.at \in Nat /\ s.at <= clock
      /\ archive \in [Keys -> 0..MaxKeys] /\ ring \in [Procs -> Rings] /\ stamp \in [Procs -> Nat]
  BY DEF IInv, TypeInv
<1>4. k \in written /\ archive[k] = 0
  <2>1. archive[k] \in {0, k} /\ archive[k] # k
    BY <1>2 DEF IInv, FileInv
  <2>2. k \in written
    BY <1>2 DEF IInv, FileInv
  <2> QED
    BY <2>1, <2>2
<1>5. keyFile # NoFile
  BY <1>2 DEF NoFile
<1>6. archive' = [archive EXCEPT ![k] = k] /\ keyFile' = NoFile
  BY <1>2, <1>4, <1>5 DEF Rotate, ArchiveName
<1>7. ring' = [ring EXCEPT ![p] = r2]
  BY <1>3, <1>5 DEF Rotate
<1>8. archive' \in [Keys -> 0..MaxKeys] /\ archive'[k] = k /\ \A j \in Keys : j # k => archive'[j] = archive[j]
  BY <1>2, <1>3, <1>6, KeyringAssumption DEF Keys
<1>9. ASSUME NEW r, RingOK(r, written, clock, archive, revoked, seals)
      PROVE  RingOK(r, written', clock', archive', revoked', seals')
  <2>1. \A j \in Keys : archive[j] = j => archive'[j] = j
    BY <1>8
  <2> QED
    BY <1>1, <1>3, <1>9, <2>1, RingKept
<1>10. Met(ring[p]) /\ Has(ring[p], k) /\ RingOK(ring[p], written', clock', archive', revoked', seals')
  BY <1>1, <1>9 DEF IInv, CopyInv, Saving
<1>11. RingOK(r2, written', clock', archive', revoked', seals') /\ MetBut(r2, clock)
  BY <1>1, <1>2, <1>3, <1>8, <1>10, RingRetires
<1> HIDE DEF r2
<1>12. pc'[p] = "reload" /\ pc' \in [Procs -> Labels]
  BY <1>1, Gone DEF Labels
<1>13. r2 \in Rings
  BY <1>11 DEF RingOK
<1>14. ring' \in [Procs -> Rings] /\ ring'[p] = r2 /\ stamp' \in [Procs -> Nat] /\ stamp'[p] = clock
  BY <1>1, <1>3, <1>7, <1>13
<1>15. TypeInv'
  <2>1. keyFile' \in [key : 0..MaxKeys, whole : BOOLEAN]
    BY <1>6, KeyringAssumption DEF NoFile
  <2>2. \A q \in Procs : stamp'[q] <= clock'
    BY <1>1, <1>3 DEF IInv, TypeInv
  <2> QED
    BY <1>1, <1>8, <1>12, <1>14, <2>1, <2>2 DEF IInv, TypeInv
<1>16. FileInv'
  <2>1. keyFile'.key = 0
    BY <1>6 DEF NoFile
  <2>2. \A j \in Keys : archive'[j] \in {0, j} /\ (archive'[j] = j => j \in written' /\ keyFile'.key # j)
    <3> SUFFICES ASSUME NEW j \in Keys
                 PROVE  archive'[j] \in {0, j} /\ (archive'[j] = j => j \in written' /\ keyFile'.key # j)
      OBVIOUS
    <3>1. j # 0
      BY DEF Keys
    <3>2. archive[j] \in {0, j} /\ (archive[j] = j => j \in written)
      BY DEF IInv, FileInv
    <3> QED
      BY <1>1, <1>4, <1>8, <2>1, <3>1, <3>2
  <2>3. PrivateKeysKept'
    <3> SUFFICES ASSUME NEW j \in written PROVE \E name \in Keys : archive'[name] = j
      BY <1>1 DEF PrivateKeysKept
    <3>1. CASE j = k
      BY <1>2, <1>8, <3>1
    <3>2. CASE j # k
      <4>1. keyFile # [key |-> j, whole |-> TRUE]
        BY <1>2, <3>2
      <4>2. PICK name \in Keys : archive[name] = j
        BY <4>1 DEF IInv, FileInv, PrivateKeysKept
      <4>3. j # 0
        BY DEF IInv, TypeInv
      <4>4. name # k
        BY <1>4, <4>2, <4>3
      <4> QED
        BY <1>8, <4>2, <4>4
    <3> QED
      BY <3>1, <3>2
  <2> QED
    BY <1>6, <2>1, <2>2, <2>3 DEF FileInv
<1>17. DiskInv'
  BY <1>1, <1>9 DEF IInv, DiskInv
<1>18. KeyInv(p)'
  BY <1>1, <1>6, <1>12 DEF KeyInv, Loaded, Minting
<1>19. CopyInv(p)'
  BY <1>1, <1>11, <1>12, <1>14 DEF CopyInv, Rotating, Saving
<1> QED
  BY <1>15, <1>16, <1>17, <1>18, <1>19, OnlyOne DEF IInv

LEMMA AddFreshStep == ASSUME OneCommand, IInv, NEW p \in Procs, AddFresh(p) PROVE IInv'
<1> DEFINE k  == key[p]
           r2 == [ring[p] EXCEPT ![k] = Record("active", stamp[p], 0)]
<1>1. /\ pc[p] = "add" /\ Goto(p, "save") /\ UNCHANGED <<files, clock, past>>
      /\ ring' = [ring EXCEPT ![p] = r2]
      /\ UNCHANGED <<keyFile, archive, ringFile, clock, minted, op, key, stamp, written, revoked, seals>>
  BY DEF AddFresh, Opens, files, past, world, IInv, TypeInv
<1>2. FileInv' /\ DiskInv'
  BY <1>1, SameDisk
<1>3. /\ keyFile = [key |-> k, whole |-> TRUE] /\ k \in Keys /\ k = minted
      /\ RingOK(ring[p], written, clock, archive, revoked, seals) /\ MetBut(ring[p], stamp[p])
      /\ ~ Has(ring[p], k) /\ op[p].name = "rotate"
  BY <1>1 DEF IInv, KeyInv, CopyInv, Loaded, Rotating
<1>4. k \in written
  BY <1>3 DEF IInv, FileInv, Keys
<1>5. /\ stamp[p] \in Nat /\ stamp[p] <= clock /\ clock \in Nat
      /\ revoked \subseteq Keys /\ \A s \in seals : s.key \in Keys
  BY DEF IInv, TypeInv
<1>6. \A j \in Keys : Has(ring[p], j) => j < k
  <2> SUFFICES ASSUME NEW j \in Keys, Has(ring[p], j) PROVE j < k
    OBVIOUS
  <2>1. j \in 1..minted /\ j # k
    BY <1>3 DEF RingOK, IInv, TypeInv
  <2> QED
    BY <1>3, <2>1 DEF IInv, TypeInv, Keys
<1>7. RingOK(r2, written, clock, archive, revoked, seals) /\ Has(r2, k) /\ Met(r2)
  BY <1>3, <1>4, <1>5, <1>6, RingAdds
<1> HIDE DEF r2
<1>8. pc'[p] = "save" /\ pc' \in [Procs -> Labels]
  BY <1>1, Gone DEF Labels
<1>9. r2 \in Rings
  BY <1>7 DEF RingOK
<1>10. ring' \in [Procs -> Rings] /\ ring'[p] = r2
  BY <1>1, <1>9 DEF IInv, TypeInv
<1>11. TypeInv'
  BY <1>1, <1>8, <1>10 DEF IInv, TypeInv
<1>12. KeyInv(p)'
  BY <1>1, <1>3, <1>8 DEF KeyInv, Loaded, Minting
<1>13. CopyInv(p)'
  BY <1>1, <1>3, <1>7, <1>8, <1>10 DEF CopyInv, Rotating, Saving
<1> QED
  BY <1>2, <1>11, <1>12, <1>13, OnlyOne DEF IInv

LEMMA SealRingStep == ASSUME OneCommand, IInv, NEW p \in Procs, SealRing(p) PROVE IInv'
<1>1. /\ pc[p] = "act" /\ Goto(p, "sign") /\ UNCHANGED <<files, clock, past>>
      /\ stamp' = [stamp EXCEPT ![p] = clock]
      /\ UNCHANGED <<keyFile, archive, ringFile, clock, minted, op, key, ring, written, revoked, seals>>
  BY DEF SealRing, Acts, files, past, world
<1>2. FileInv' /\ DiskInv'
  BY <1>1, SameDisk
<1>3. pc'[p] = "sign" /\ pc' \in [Procs -> Labels]
  BY <1>1, Gone DEF Labels
<1>4. stamp' \in [Procs -> Nat] /\ \A q \in Procs : stamp'[q] <= clock'
  BY <1>1 DEF IInv, TypeInv
<1>5. TypeInv'
  BY <1>1, <1>3, <1>4 DEF IInv, TypeInv
<1>6. KeyInv(p)'
  BY <1>1, <1>3 DEF IInv, KeyInv, Loaded, Minting
<1>7. CopyInv(p)'
  BY <1>1, <1>3 DEF IInv, CopyInv, Rotating, Saving
<1> QED
  BY <1>2, <1>5, <1>6, <1>7, OnlyOne DEF IInv

\* The key that signs is the one in the file, so it is not retired, and its window has
\* no end yet and began before.
LEMMA SignStep == ASSUME OneCommand, IInv, NEW p \in Procs, Sign(p) PROVE IInv'
<1> DEFINE k == key[p]
           carried == Record("active", stamp[p], 0)
           seal == [key |-> k, carried |-> carried, at |-> clock]
<1>1. /\ pc[p] = "sign" /\ Goto(p, "idle") /\ seals' = seals \cup {seal}
      /\ UNCHANGED <<keyFile, archive, ringFile, clock, minted, op, key, ring, stamp, written, revoked>>
  BY DEF Sign, files, local, world
<1>2. /\ keyFile = [key |-> k, whole |-> TRUE] /\ k \in Keys /\ k # 0
      /\ RingOK(ring[p], written, clock, archive, revoked, seals) /\ Met(ring[p])
      /\ ringFile = ring[p] /\ Has(ring[p], k)
  BY <1>1 DEF IInv, KeyInv, CopyInv, Loaded, Saving, Keys
<1>3. stamp[p] \in Nat /\ stamp[p] <= clock /\ clock \in Nat
  BY DEF IInv, TypeInv
<1>4. pc'[p] = "idle" /\ pc' \in [Procs -> Labels]
  BY <1>1, Gone DEF Labels
<1>5. seal.key \in Keys /\ seal.at = clock /\ Accepted(seal.carried, seal.at)
  BY <1>2, <1>3 DEF Accepted, After, Record
<1>6. ring[p][k].status = "revoked" \/ Accepted(ring[p][k], clock)
  <2>1. ring[p][k].status # "retired"
    <3>1. archive[k] # k
      BY <1>2 DEF IInv, FileInv
    <3> QED
      BY <1>2, <3>1 DEF RingOK
  <2>2. CASE ring[p][k].status = "active"
    <3>1. ring[p][k].na = 0 /\ ring[p][k].nb <= clock /\ ring[p][k].nb \in Nat
      BY <1>2, <2>2 DEF RingOK, Rings
    <3> QED
      BY <1>3, <2>2, <3>1 DEF Accepted, After
  <2> QED
    BY <1>2, <2>1, <2>2 DEF Has, Statuses
<1> HIDE DEF carried
<1>7. TypeInv'
  <2>1. \A s \in seals' : s.key \in Keys /\ s.at \in Nat /\ s.at <= clock' /\ Accepted(s.carried, s.at)
    BY <1>1, <1>3, <1>5 DEF IInv, TypeInv
  <2> QED
    BY <1>1, <1>4, <2>1 DEF IInv, TypeInv
<1>8. FileInv'
  BY <1>1 DEF IInv, FileInv, PrivateKeysKept
<1>9. DiskInv'
  <2>1. \A s \in seals' : ring[p][s.key].status = "revoked" \/ Accepted(ring[p][s.key], s.at)
    BY <1>1, <1>2, <1>6 DEF RingOK
  <2>2. RingOK(ring[p], written, clock, archive, revoked, seals')
    BY <1>2, <2>1 DEF RingOK
  <2> QED
    BY <1>1, <1>2, <2>2 DEF DiskInv
<1> QED
  BY <1>4, <1>7, <1>8, <1>9, NothingHeld DEF IInv

LEMMA NextInv == ASSUME OneCommand, IInv, [Next]_vars PROVE IInv'
<1>1. CASE Tick
  BY <1>1, TickStep
<1>2. ASSUME NEW p \in Procs, Command(p) PROVE IInv'
  <2>1. \/ LoadKey(p) \/ LoadAgain(p) \/ CreateKey(p) \/ WriteKey(p) \/ ReadRing(p)
        \/ Truncate(p) \/ Flush(p) \/ Keygen(p) \/ Revoke(p) \/ Rotate(p) \/ AddFresh(p)
        \/ SealRing(p) \/ Sign(p)
    BY <1>2 DEF Command
  <2> QED
    BY <2>1, LoadKeyStep, LoadAgainStep, CreateKeyStep, WriteKeyStep, ReadRingStep, TruncateStep,
       FlushStep, KeygenStep, RevokeStep, RotateStep, AddFreshStep, SealRingStep, SignStep
<1>3. ASSUME NEW p \in Procs, Crash(p) PROVE IInv'
  BY <1>3, CrashStep
<1>4. ASSUME NEW p \in Procs, NEW command \in Commands, Begin(p, command) PROVE IInv'
  BY <1>4, BeginStep
<1>5. CASE UNCHANGED vars
  <2>1. UNCHANGED <<keyFile, archive, ringFile, clock, minted, pc, op, key, ring, stamp, written, revoked, seals>>
    BY <1>5 DEF vars
  <2>2. TypeInv' /\ FileInv' /\ DiskInv'
    BY <2>1 DEF IInv, TypeInv, FileInv, PrivateKeysKept, DiskInv
  <2>3. \A p \in Procs : KeyInv(p)' /\ CopyInv(p)'
    BY <2>1 DEF IInv, KeyInv, CopyInv
  <2> QED
    BY <2>2, <2>3 DEF IInv
<1> QED
  BY <1>1, <1>2, <1>3, <1>4, <1>5 DEF Next

---------------------------------------------------------------------------
(* Theorems.                                                               *)

\* The inductive invariant holds of every behaviour: see its parts for what it says of the
\* files and of the command's copy of them, between any two steps of keyring.py.
THEOREM Invariance == ASSUME OneCommand PROVE Spec => []IInv
  BY InitInv, NextInv, PTL DEF Spec

\* rotate() never deletes a private key: a key that reached its file is the current one or
\* archived ("moved next to the new one rather than deleted"), wherever a command stops.
THEOREM KeysAreKept == ASSUME OneCommand PROVE Spec => []PrivateKeysKept
<1>1. IInv => PrivateKeysKept
  BY DEF IInv, FileInv
<1> QED
  BY <1>1, Invariance, PTL

\* A revocation that revoke() reported is in every ring that can be read from then on:
\* no later rotation, revocation or interruption takes it back.
THEOREM RevocationStays == ASSUME OneCommand PROVE Spec => []RevokedStaysRevoked
<1>1. IInv => RevokedStaysRevoked
  BY DEF IInv, DiskInv, RingOK, RevokedStaysRevoked
<1> QED
  BY <1>1, Invariance, PTL

\* What was sealed with a key that is not revoked is inside the window evaluate() reads for
\* it, in the signer's ring and in the ring the package carries, after any rotation.
THEOREM SealsStayVerifiable == ASSUME OneCommand PROVE Spec => []SealsVerify
<1>1. IInv => SealsVerify
  BY DEF IInv, TypeInv, DiskInv, RingOK, SealsVerify
<1> QED
  BY <1>1, Invariance, PTL

\* The one stamp of rotate() closes a window and opens the next: no retired key of a ring
\* that can be read has an inverted window or one that its successor's does not meet.
THEOREM WindowsHaveNoGap == ASSUME OneCommand PROVE Spec => []WindowsMeet
<1>1. ASSUME IInv, ringFile # Torn, NEW k \in Keys, ringFile[k].status = "retired"
      PROVE  /\ ringFile[k].nb <= ringFile[k].na
             /\ \E j \in Keys : Has(ringFile, j) /\ j > k /\ ringFile[j].nb = ringFile[k].na
  BY <1>1 DEF IInv, DiskInv, RingOK, Met, Follows
<1>2. IInv => WindowsMeet
  BY <1>1 DEF WindowsMeet
<1> QED
  BY <1>2, Invariance, PTL
=============================================================================
