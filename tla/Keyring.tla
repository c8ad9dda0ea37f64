------------------------------ MODULE Keyring ------------------------------
(***************************************************************************)
(* attest/keyring.py over attest/signing.py: a signing key, the keyring    *)
(* beside it, and the commands that share the two files: keygen, keygen    *)
(* --rotate, keygen --revoke and seal (cli.py).  No command takes a lock,  *)
(* and each may stop between any two of its file operations.               *)
(* A key is the number of its making, a moment a tick of the clock in      *)
(* seconds, and 0 stands for a moment that is not claimed.  A record's     *)
(* private_key_path is left out: it decides nothing here.                  *)
(***************************************************************************)
EXTENDS Naturals, FiniteSets

CONSTANTS
    Procs,       \* the commands that may run at once
    MaxKeys,     \* bound on the keys made
    MaxCommands, \* bound on the commands started
    MaxCrashes,  \* bound on the commands that stop half way
    MaxMoment    \* bound on the clock

ASSUME KeyringAssumption ==
    /\ MaxKeys \in Nat /\ MaxCommands \in Nat
    /\ MaxCrashes \in Nat /\ MaxMoment \in Nat \ {0}

VARIABLES
    keyFile,  \* signing-key.pem: NoFile, or whose key it is for and whether it is whole
    archive,  \* signing-key-<id>.pem: the key each holds, or 0
    ringFile, \* keyring.json: a ring, Torn, or the empty ring when there is none
    clock, minted,
    pc, op, key, ring, stamp,  \* per command: where it is, what it does, its
                               \* key, its copy of the ring, its moment
    commands, crashes,
    written,  \* history: the keys whose private half reached a file
    revoked,  \* history: the keys whose revocation was reported done
    seals     \* history: what was signed, with which key and when

vars == <<keyFile, archive, ringFile, clock, minted, pc, op, key, ring, stamp,
          commands, crashes, written, revoked, seals>>
files == <<keyFile, archive, ringFile>>
past  == <<written, revoked, seals>>
local == <<op, key, ring, stamp>>
world == <<clock, minted, commands, crashes>>

Keys    == 1..MaxKeys
Moments == 0..MaxMoment
NoFile  == [key |-> 0, whole |-> TRUE]

Statuses == {"active", "retired", "revoked"}
Record(status, nb, na) == [status |-> status, nb |-> nb, na |-> na]
NoRecord  == Record("none", 0, 0)
EmptyRing == [k \in Keys |-> NoRecord]
Torn      == [k \in Keys |-> Record("torn", 0, 0)]
Has(r, k) == r[k].status \in Statuses

Commands == [name : {"keygen", "rotate", "seal"}, of : {0}] \cup [name : {"revoke"}, of : Keys]
NoCommand == [name |-> "keygen", of |-> 0]

Init ==
    /\ keyFile = NoFile /\ archive = [k \in Keys |-> 0] /\ ringFile = EmptyRing
    /\ clock = 1 /\ minted = 0 /\ commands = 0 /\ crashes = 0
    /\ pc = [p \in Procs |-> "idle"] /\ op = [p \in Procs |-> NoCommand]
    /\ key = [p \in Procs |-> 0] /\ ring = [p \in Procs |-> EmptyRing]
    /\ stamp = [p \in Procs |-> 0]
    /\ written = {} /\ revoked = {} /\ seals = {}

Goto(p, label) == pc' = [pc EXCEPT ![p] = label]

---------------------------------------------------------------------------
(* What a record says of a moment: evaluate(). *)

\* Mutant: the last second of the window is outside it.
AfterAtOnce(record, moment) == record.na # 0 /\ moment >= record.na

After(record, moment) == record.na # 0 /\ moment > record.na

Accepted(record, moment) ==
    /\ record.status \in {"active", "retired"}
    /\ ~ (record.nb # 0 /\ moment < record.nb)
    /\ ~ After(record, moment)

---------------------------------------------------------------------------
(* load_or_create() and load_local(), with which every command begins. *)

Begin(p, command) ==
    /\ pc[p] = "idle" /\ commands < MaxCommands
    /\ commands' = commands + 1
    /\ op' = [op EXCEPT ![p] = command]
    /\ Goto(p, "load")
    /\ UNCHANGED <<files, clock, minted, key, ring, stamp, crashes, past>>

\* A key that is not in the file yet: generate().
Generate(p, label) ==
    /\ minted < MaxKeys
    /\ minted' = minted + 1
    /\ key' = [key EXCEPT ![p] = minted + 1]
    /\ Goto(p, label)

\* load_or_create() reads the key there is; an empty file will not parse.
LoadKey(p) ==
    /\ pc[p] = "load"
    /\ IF keyFile = NoFile
       THEN Generate(p, "create")
       ELSE /\ IF keyFile.whole
               THEN key' = [key EXCEPT ![p] = keyFile.key] /\ Goto(p, "adopt")
               ELSE Goto(p, "idle") /\ UNCHANGED key
            /\ UNCHANGED minted
    /\ UNCHANGED <<files, clock, op, ring, stamp, commands, crashes, past>>

\* rotate()'s own load_or_create(): the path was just cleared, or it raises.
LoadAgain(p) ==
    /\ pc[p] = "reload"
    /\ IF keyFile = NoFile
       THEN Generate(p, "recreate")
       ELSE Goto(p, "idle") /\ UNCHANGED <<key, minted>>
    /\ UNCHANGED <<files, clock, op, ring, stamp, commands, crashes, past>>

\* O_CREAT | O_EXCL: the file is there, and empty, from here on.
CreateKey(p) ==
    /\ pc[p] \in {"create", "recreate"}
    /\ IF keyFile = NoFile
       THEN /\ keyFile' = [key |-> key[p], whole |-> FALSE]
            /\ Goto(p, IF pc[p] = "create" THEN "write" ELSE "rewrite")
       ELSE Goto(p, "idle") /\ UNCHANGED keyFile
    /\ UNCHANGED <<archive, ringFile, local, world, past>>

\* The bytes go to the file this command opened, whoever has unlinked it since.
WriteKey(p) ==
    /\ pc[p] \in {"write", "rewrite"}
    /\ keyFile' = IF keyFile.key = key[p] THEN [keyFile EXCEPT !.whole = TRUE] ELSE keyFile
    /\ written' = written \cup {key[p]}
    /\ Goto(p, IF pc[p] = "write" THEN "enrol" ELSE "add")
    /\ UNCHANGED <<archive, ringFile, local, world, revoked, seals>>

\* load_local() after the key: the ring is read, and a key it does not name is
\* added to it, with a start of validity only when the key was made just now.
ReadRing(p) ==
    /\ pc[p] \in {"adopt", "enrol"}
    /\ IF ringFile = Torn
       THEN Goto(p, "idle") /\ UNCHANGED ring
       ELSE LET start == IF pc[p] = "enrol" THEN clock ELSE 0
            IN  IF Has(ringFile, key[p])
                THEN /\ ring' = [ring EXCEPT ![p] = ringFile]
                     /\ Goto(p, "act")
                ELSE /\ ring' = [ring EXCEPT ![p] =
                                    [ringFile EXCEPT ![key[p]] = Record("active", start, 0)]]
                     /\ Goto(p, "save_first")
    /\ UNCHANGED <<files, op, key, stamp, world, past>>

\* save(): the file is truncated when it is opened, and written after.
Truncate(p) ==
    /\ pc[p] \in {"save_first", "save"}
    /\ ringFile' = Torn
    /\ Goto(p, IF pc[p] = "save_first" THEN "flush_first" ELSE "flush")
    /\ UNCHANGED <<keyFile, archive, local, world, past>>

Flush(p) ==
    /\ pc[p] \in {"flush_first", "flush"}
    /\ ringFile' = ring[p]
    /\ Goto(p, IF pc[p] = "flush_first" THEN "act" ELSE "idle")
    /\ revoked' = IF pc[p] = "flush" /\ op[p].name = "revoke"
                  THEN revoked \cup {op[p].of} ELSE revoked
    /\ UNCHANGED <<keyFile, archive, local, world, written, seals>>

---------------------------------------------------------------------------
(* The commands. *)

Acts(p, name) == pc[p] = "act" /\ op[p].name = name

\* keygen only prints what it loaded.
Keygen(p) == /\ Acts(p, "keygen")
             /\ Goto(p, "idle")
             /\ UNCHANGED <<files, local, world, past>>

Revoke(p) ==
    /\ Acts(p, "revoke")
    /\ LET k == op[p].of
       IN  IF Has(ring[p], k)
           THEN /\ ring' = [ring EXCEPT ![p][k] =
                               Record("revoked", @.nb, IF @.na = 0 THEN clock ELSE @.na)]
                /\ Goto(p, "save")
           ELSE Goto(p, "idle") /\ UNCHANGED ring
    /\ UNCHANGED <<files, op, key, stamp, world, past>>

\* Mutant: whatever stood in the record, it is retired now.
RetiredAnyway(record, when) == Record("retired", record.nb, when)

Retired(record, when) ==
    IF record.status = "active" THEN Record("retired", record.nb, when) ELSE record

\* Mutant: one name for every archived key.
OneArchive(k) == 1

ArchiveName(k) == k

\* rotate() after load_local(): one stamp, the record retired, the file moved aside.
Rotate(p) ==
    /\ Acts(p, "rotate")
    /\ stamp' = [stamp EXCEPT ![p] = clock]
    /\ IF keyFile = NoFile
       THEN UNCHANGED <<ring, keyFile, archive>>
       ELSE /\ ring' = [ring EXCEPT ![p][key[p]] = Retired(@, clock)]
            /\ LET name == ArchiveName(key[p])
               IN  archive' = IF archive[name] = 0
                              THEN [archive EXCEPT ![name] = keyFile.key] ELSE archive
            /\ keyFile' = NoFile
    /\ Goto(p, "reload")
    /\ UNCHANGED <<ringFile, op, key, world, past>>

\* Mutant: the new window opens when the new key is ready.
OpensWhenReady(p) == clock

Opens(p) == stamp[p]

\* The fresh key joins the command's copy of the ring.
AddFresh(p) ==
    /\ pc[p] = "add"
    /\ ring' = [ring EXCEPT ![p][key[p]] = Record("active", Opens(p), 0)]
    /\ Goto(p, "save")
    /\ UNCHANGED <<files, op, key, stamp, world, past>>

\* write_package(): the ring the package carries is stamped first,
SealRing(p) ==
    /\ Acts(p, "seal")
    /\ stamp' = [stamp EXCEPT ![p] = clock]
    /\ Goto(p, "sign")
    /\ UNCHANGED <<files, op, key, ring, world, past>>

\* and the manifest's `created` after it.
Sign(p) ==
    /\ pc[p] = "sign"
    /\ seals' = seals \cup {[key |-> key[p], carried |-> Record("active", stamp[p], 0), at |-> clock]}
    /\ Goto(p, "idle")
    /\ UNCHANGED <<files, local, world, written, revoked>>

---------------------------------------------------------------------------
Tick == /\ clock < MaxMoment
        /\ clock' = clock + 1
        /\ UNCHANGED <<files, minted, pc, local, commands, crashes, past>>

Crash(p) ==
    /\ pc[p] # "idle" /\ crashes < MaxCrashes
    /\ crashes' = crashes + 1
    /\ Goto(p, "idle")
    /\ UNCHANGED <<files, clock, minted, local, commands, past>>

Command(p) ==
    \/ LoadKey(p) \/ LoadAgain(p) \/ CreateKey(p) \/ WriteKey(p) \/ ReadRing(p)
    \/ Truncate(p) \/ Flush(p)
    \/ Keygen(p) \/ Revoke(p) \/ Rotate(p) \/ AddFresh(p) \/ SealRing(p) \/ Sign(p)

Next == \/ Tick
        \/ \E p \in Procs : \/ Command(p)
                            \/ Crash(p)
                            \/ \E command \in Commands : Begin(p, command)

Spec == Init /\ [][Next]_vars

---------------------------------------------------------------------------
(* Properties *)

Labels == {"idle", "load", "reload", "create", "recreate", "write", "rewrite", "adopt", "enrol",
           "save_first", "save", "flush_first", "flush", "act", "add", "sign"}

\* Every variable keeps to its type, and the keyring on disk names no key whose
\* private half has not reached a file.
TypeOK ==
    LET Record0 == [status : Statuses \cup {"none", "torn"}, nb : Moments, na : Moments]
    IN  /\ keyFile \in [key : 0..minted, whole : BOOLEAN]
        /\ archive \in [Keys -> 0..minted]
        /\ ringFile \in [Keys -> Record0] /\ ring \in [Procs -> [Keys -> Record0]]
        /\ clock \in 1..MaxMoment /\ minted \in 0..MaxKeys
        /\ commands \in 0..MaxCommands /\ crashes \in 0..MaxCrashes
        /\ pc \in [Procs -> Labels] /\ op \in [Procs -> Commands]
        /\ key \in [Procs -> 0..minted] /\ stamp \in [Procs -> Moments]
        /\ written \subseteq 1..minted /\ revoked \subseteq 1..minted
        /\ \A s \in seals : s.key \in 1..minted /\ s.at \in 1..clock
        /\ ringFile # Torn => \A k \in Keys : Has(ringFile, k) => k \in written

\* A private key that reached its file is never deleted: it is the current one
\* or in an archive ("moved next to the new one rather than deleted", rotate).
PrivateKeysKept ==
    \A k \in written : \/ keyFile = [key |-> k, whole |-> TRUE]
                       \/ \E name \in Keys : archive[name] = k

\* A key whose revocation was reported stays revoked in every ring that can be
\* read, whatever is rotated, revoked or interrupted afterwards.
RevokedStaysRevoked ==
    ringFile # Torn => \A k \in revoked : ringFile[k].status = "revoked"

\* What was signed with a key that is not revoked verifies against the signer's
\* own keyring and against the ring the package carries: evaluate() accepts the
\* moment it was made, before and after any rotation.
SealsVerify ==
    ringFile # Torn =>
        \A s \in seals :
            /\ Accepted(s.carried, s.at)
            /\ ringFile[s.key].status = "revoked" \/ Accepted(ringFile[s.key], s.at)

\* A rotation leaves neither an inverted window nor a gap: a retired key's
\* window runs forward, and its successor's opens the moment it closes.
WindowsMeet ==
    ringFile # Torn =>
        \A k \in Keys : ringFile[k].status = "retired" =>
            /\ ringFile[k].nb <= ringFile[k].na
            /\ \E j \in Keys : Has(ringFile, j) /\ j > k /\ ringFile[j].nb = ringFile[k].na
=============================================================================
