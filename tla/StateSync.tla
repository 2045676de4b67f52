----------------------------- MODULE StateSync -----------------------------
(***************************************************************************)
(* State sync of the byte code.  The snapshotter walks through the codes   *)
(* of a committed height while the node goes on running transactions, and  *)
(* writes each byte code once.  Another node, whose stores were restored   *)
(* to that height before, stores the byte code it reads and then fills its *)
(* cache of pinned codes.  The byte code does not come from the height but *)
(* from wasmvm, as it is when the snapshotter gets to it.                  *)
(***************************************************************************)
EXTENDS Registry

CONSTANTS
  MaxSnapshot,  \* bound: snapshots taken
  MaxTry        \* bound: attempts to restore

ASSUME StateSyncAssumption == MaxSnapshot \in Nat /\ MaxTry \in Nat

VARIABLES
  snapshot,  \* the snapshot being written, and what it holds
  replica    \* the node that restores it

syncVars == <<vars, snapshot, replica>>

Snapshot ==
  [store : Store, next : Nat, payload : Seq(Hash),
   status : {"none", "writing", "done", "failed"}, taken : 0..MaxSnapshot]

Replica ==
  [store : Store, codes : SUBSET Hash, pinned : SUBSET Hash, items : Seq(Hash),
   topin : SUBSET CodeID,
   status : {"empty", "restoring", "ready", "failed"}, tries : 0..MaxTry]

SyncInit ==
  /\ Init
  /\ snapshot = [store |-> EmptyStore, next |-> 1, payload |-> << >>,
                 status |-> "none", taken |-> 0]
  /\ replica = [store |-> EmptyStore, codes |-> {}, pinned |-> {}, items |-> << >>,
                topin |-> {}, status |-> "empty", tries |-> 0]

Codes(store) == {c \in CodeID : HasCode(store, c)}

----------------------------------------------------------------------------
(* The snapshotter, concurrent with transactions.                          *)

\* A snapshot of the last height is begun, after a block (the snapshot
\* manager runs one at a time).
TakeSnapshot ==
  /\ stack = << >>
  /\ snapshot.status # "writing" /\ snapshot.taken < MaxSnapshot
  /\ snapshot' = [store |-> committed, next |-> 1, payload |-> << >>,
                  status |-> "writing", taken |-> snapshot.taken + 1]
  /\ UNCHANGED <<vars, replica>>

\* SnapshotExtension, one code of the iteration: a checksum seen before is
\* skipped, an error ends the iteration and fails the snapshot.
Written_StopAtSeen(s) ==
  LET hash == HashOf(s.store, s.next) IN
  IF hash \in {s.payload[i] : i \in DOMAIN s.payload}
  THEN [s EXCEPT !.next = MaxCode + 1]
  ELSE IF hash \in vmCodes
  THEN [s EXCEPT !.next = @ + 1, !.payload = Append(@, hash)]
  ELSE [s EXCEPT !.status = "failed"]

Written(s) ==
  LET hash == HashOf(s.store, s.next) IN
  IF hash \in {s.payload[i] : i \in DOMAIN s.payload}
  THEN [s EXCEPT !.next = @ + 1]
  ELSE IF hash \in vmCodes
  THEN [s EXCEPT !.next = @ + 1, !.payload = Append(@, hash)]
  ELSE [s EXCEPT !.status = "failed"]

SnapshotCode ==
  /\ snapshot.status = "writing"
  /\ snapshot.next \in Codes(snapshot.store)
  /\ snapshot' = Written(snapshot)
  /\ UNCHANGED <<vars, replica>>

SnapshotDone ==
  /\ snapshot.status = "writing"
  /\ snapshot.next \notin Codes(snapshot.store)
  /\ snapshot' = [snapshot EXCEPT !.status = "done"]
  /\ UNCHANGED <<vars, replica>>

----------------------------------------------------------------------------
(* The node that restores.                                                 *)

\* The stores are restored first.  A node that failed tries again with the
\* wasmvm directory it has by then, and with the codes it has pinned already,
\* or with none after it was stopped.
BeginRestore ==
  /\ snapshot.status = "done"
  /\ replica.status \in {"empty", "failed"} /\ replica.tries < MaxTry
  /\ \E kept \in {replica.pinned, {}} :
       replica' = [replica EXCEPT !.store = snapshot.store, !.pinned = kept,
                                  !.items = snapshot.payload, !.topin = snapshot.store.pinned,
                                  !.status = "restoring", !.tries = @ + 1]
  /\ UNCHANGED <<vars, snapshot>>

\* processAllItems and restoreV1: the next item is uncompressed and stored.
RestoreItem ==
  /\ replica.status = "restoring"
  /\ replica.items # << >>
  /\ replica' = [replica EXCEPT !.items = Tail(@),
                                !.codes = @ \cup {Head(replica.items)}]
  /\ UNCHANGED <<vars, snapshot>>

\* The reader fails, or an item is not what it should be, or the node stops.
RestoreFails ==
  /\ replica.status = "restoring"
  /\ replica' = [replica EXCEPT !.status = "failed"]
  /\ UNCHANGED <<vars, snapshot>>

\* finalizeV1 calls InitializePinnedCodes, which pins in the order of the code
\* ids and fails on a missing code.
PinCode ==
  /\ replica.status = "restoring"
  /\ replica.items = << >>
  /\ \E c \in replica.topin :
       /\ \A d \in replica.topin : c <= d
       /\ replica' =
            IF HasCode(replica.store, c) /\ HashOf(replica.store, c) \in replica.codes
            THEN [replica EXCEPT !.topin = @ \ {c},
                                 !.pinned = @ \cup {HashOf(replica.store, c)}]
            ELSE [replica EXCEPT !.status = "failed"]
  /\ UNCHANGED <<vars, snapshot>>

FinalizeRestore ==
  /\ replica.status = "restoring"
  /\ replica.items = << >> /\ replica.topin = {}
  /\ replica' = [replica EXCEPT !.status = "ready"]
  /\ UNCHANGED <<vars, snapshot>>

SyncNext ==
  \/ Next /\ UNCHANGED <<snapshot, replica>>
  \/ TakeSnapshot \/ SnapshotCode \/ SnapshotDone
  \/ BeginRestore \/ RestoreItem \/ RestoreFails \/ PinCode \/ FinalizeRestore

SyncSpec == SyncInit /\ [][SyncNext]_syncVars

----------------------------------------------------------------------------
\* Types; what the replica stores are byte codes, uncompressed.
SyncTypeOK == TypeOK /\ snapshot \in Snapshot /\ replica \in Replica

\* A snapshot never fails for lack of byte code, although the height it is
\* taken at and the wasmvm directory it reads are not the same moment: what
\* happens meanwhile, dropped transactions and restarts included, removes
\* no code an earlier height refers to.
SnapshotNeverFails == snapshot.status # "failed"

\* finalizeV1 checks the pinned codes only ("ensure all codes have been
\* uploaded?"): still a node that finished restoring has the byte code of
\* every code of its height, and its pinned codes in the cache, whatever
\* became of earlier attempts.
RestoredCanRun ==
  replica.status = "ready" =>
    /\ \A c \in Codes(replica.store) : HashOf(replica.store, c) \in replica.codes
    /\ Hashes(replica.store, replica.store.pinned) \subseteq replica.pinned
============================================================================
