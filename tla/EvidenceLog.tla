---------------------------- MODULE EvidenceLog ----------------------------
(***************************************************************************)
(* attest/chain.py and attest/merkle.py under attest/package.py's writer   *)
(* and attest/verify.py's reader: a log of entries is appended to and      *)
(* packed, a reader keeps a package, and is given another later.  In       *)
(* between the holder of the log may have rewritten it, and a package may  *)
(* come damaged.                                                           *)
(* What a reader accepts, and what it takes for an extension of what it    *)
(* kept, is checked against what was done to the log.  An entry's          *)
(* timestamp and subject are one field, since they are treated alike.      *)
(***************************************************************************)
EXTENDS Merkle, FiniteSets

CONSTANTS
    Payloads,     \* what an entry may say when it is appended
    Revision,     \* what it may be made to say afterwards
    MaxLength,    \* bound on the log
    MaxRevisions  \* bound on the entries that are made to say something else

ASSUME LogAssumption ==
    /\ Revision \notin Payloads /\ MaxLength \in Nat /\ MaxRevisions \in Nat

VARIABLES
    log,      \* the signer's entries
    package,  \* the newest package, as it reaches a reader
    kept      \* the package the reader kept

vars == <<log, package, kept>>

Version == 2
Genesis == <<"genesis">>

PayloadHash(payload) == <<"payload", payload>>
EntryHash(entry) == <<"entry", entry.version, entry.index, entry.prev, entry.payloadHash, entry.at>>

LastHash(entries) == IF entries = <<>> THEN Genesis ELSE entries[Len(entries)].hash

Entry(index, prev, payload) ==
    LET blank == [version |-> Version, index |-> index, prev |-> prev, payload |-> payload,
                  payloadHash |-> PayloadHash(payload), at |-> "then", hash |-> Genesis]
    IN  [blank EXCEPT !.hash = EntryHash(blank)]

\* append(): the next index, over the hash of the last entry.
Appended(entries, payload) ==
    Append(entries, Entry(Len(entries), LastHash(entries), payload))

\* A log that says these things, from its genesis on.
LogOf(payloads) ==
    LET f[k \in 0..Len(payloads)] == IF k = 0 THEN <<>> ELSE Appended(f[k - 1], payloads[k])
    IN  f[Len(payloads)]

Leaves(entries) == [k \in DOMAIN entries |-> LeafHash(entries[k])]

\* write_package(): the entries, and a signed manifest with their head and root.
Pack(entries) == [entries |-> entries, head |-> LastHash(entries), root |-> BuildRoot(Leaves(entries))]

Init == log = <<>> /\ package = Pack(<<>>) /\ kept = Pack(<<>>)

---------------------------------------------------------------------------
(* The reader. *)

\* verify_chain() of one entry.
WellFormed(entry, position, prev) ==
    /\ entry.index = position /\ entry.version = Version
    /\ entry.prev = prev
    /\ PayloadHash(entry.payload) = entry.payloadHash
    /\ EntryHash(entry) = entry.hash

ChainIntact(entries) ==
    \A k \in DOMAIN entries :
        WellFormed(entries[k], k - 1, LastHash(SubSeq(entries, 1, k - 1)))

\* Mutant: the head and the root of the manifest are not compared.
AcceptedByChain(pack) == ChainIntact(pack.entries)

\* Of verify_package(), the checks that are about the entries.
Accepted(pack) ==
    /\ ChainIntact(pack.entries)
    /\ LastHash(pack.entries) = pack.head
    /\ BuildRoot(Leaves(pack.entries)) = pack.root

\* verify_extends(), of an older package that is not empty (it raises on one that is).
VerifyExtends(old, new) ==
    /\ Accepted(old) /\ Accepted(new)
    /\ Len(new.entries) >= Len(old.entries)
    /\ VerifyConsistency([old |-> BuildRoot(Leaves(old.entries)), new |-> BuildRoot(Leaves(new.entries))],
                         Len(old.entries), Len(new.entries),
                         BuildConsistency(Leaves(new.entries), Len(old.entries)))

---------------------------------------------------------------------------
(* What happens to a log and to a package. *)

\* The signer has this log now, and packs it.
Write(entries) == log' = entries /\ package' = Pack(entries) /\ UNCHANGED kept

Add(payload) == Len(log) < MaxLength /\ Write(Appended(log, payload))

\* The holder of the key makes an entry say something else, or leaves one out, and
\* chains the rest again: the result is as well formed as the log it replaces.
Said      == [k \in DOMAIN log |-> log[k].payload]
Revised   == { k \in DOMAIN log : log[k].payload = Revision }
Revise(k) ==
    /\ k \in DOMAIN log \ Revised /\ Cardinality(Revised) < MaxRevisions
    /\ Write(LogOf([Said EXCEPT ![k] = Revision]))
Withdraw(k) ==
    /\ k \in DOMAIN log
    /\ Write(LogOf(SubSeq(Said, 1, k - 1) \o SubSeq(Said, k + 1, Len(log))))

Keep == /\ package.entries = log
        /\ kept' = package
        /\ UNCHANGED <<log, package>>

\* One field of one entry of the package is not what was written, ...
Altered(entry) ==
    { [entry EXCEPT !.version = 1], [entry EXCEPT !.index = @ + 1], [entry EXCEPT !.prev = <<"other">>],
      [entry EXCEPT !.payload = "other"], [entry EXCEPT !.payloadHash = <<"other">>],
      [entry EXCEPT !.at = "later"], [entry EXCEPT !.hash = <<"other">>] }
\* ... or an entry is missing, or twice there, or two have changed places.
Damaged(entries) ==
    UNION { { SubSeq(entries, 1, k - 1) \o SubSeq(entries, k + 1, Len(entries)),
              SubSeq(entries, 1, k) \o SubSeq(entries, k, Len(entries)) }
            \cup { [entries EXCEPT ![k] = e] : e \in Altered(entries[k]) }
            \cup { [entries EXCEPT ![k] = entries[j], ![j] = entries[k]] : j \in 1..(k - 1) }
            : k \in DOMAIN entries }
Damage ==
    /\ package.entries = log
    /\ \E entries \in Damaged(log) : package' = [package EXCEPT !.entries = entries]
    /\ UNCHANGED <<log, kept>>

Next ==
    \/ \E payload \in Payloads : Add(payload)
    \/ \E k \in 1..MaxLength : Revise(k) \/ Withdraw(k)
    \/ Keep \/ Damage

Spec == Init /\ [][Next]_vars

---------------------------------------------------------------------------
(* Properties *)

\* The signer's log is as append() leaves it, positions counted from zero, within
\* its bounds; and what a reader keeps is what it would accept.
TypeOK ==
    /\ Len(log) <= MaxLength /\ Cardinality(Revised) <= MaxRevisions
    /\ \A k \in DOMAIN log :
          /\ log[k].version = Version /\ log[k].index = k - 1
          /\ log[k].payload \in Payloads \cup {Revision}
    /\ Len(package.entries) <= MaxLength + 1
    /\ Accepted(kept)

\* A package is accepted exactly when its entries are those that were packed: any
\* field changed, any entry lost, repeated or moved is noticed, and nothing else.
AcceptedIsAsWritten == Accepted(package) <=> package.entries = log

\* verify_extends() says yes exactly when the kept log is the beginning of the new
\* one: appending is never refused, and no rewriting, however well chained, passes.
ExtendsIsPrefix ==
    kept.entries # <<>> /\ Accepted(package) =>
        (VerifyExtends(kept, package)
            <=> /\ Len(kept.entries) <= Len(package.entries)
                /\ SubSeq(package.entries, 1, Len(kept.entries)) = kept.entries)

\* The proof built for one entry verifies at that entry's index and at no other.
IncludedAtItsIndex ==
    LET leaves == Leaves(log)
        root   == BuildRoot(leaves)
    IN  \A i, j \in DOMAIN log :
            VerifyProof(leaves[j], i - 1, BuildProof(leaves, j - 1), root, Len(log)) <=> i = j
=============================================================================
