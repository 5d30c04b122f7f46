----------------------------- MODULE Credentials -----------------------------
(***************************************************************************)
(* CredentialStore of src/src/godalgo/ui/credentials.py: the keys, the     *)
(* permission each carries to place orders, and the file they are saved    *)
(* to.  add and set_trade_enabled run in a thread of their own while the   *)
(* event loop may remove a key or store a secret, so two saves may overlap;*)
(* they share one temporary file.  A save may fail and the process may be  *)
(* killed between any two steps.                                           *)
(***************************************************************************)
EXTENDS Naturals, FiniteSets

CONSTANTS
  Keys,           \* labels of the credentials
  Testnet,        \* those stored with testnet=True
  Writers,        \* requests that may be saving at one time
  MaxRequests,    \* bound: requests
  MaxTrouble      \* bound: failed saves, and kills

ASSUME CredentialsAssumption ==
  IsFiniteSet(Keys) /\ Testnet \subseteq Keys /\ IsFiniteSet(Writers)
  /\ MaxRequests \in Nat /\ MaxTrouble \in Nat

\* A key is absent, read-only, or may place orders.
Levels == {"absent", "readonly", "trading"}
Kinds == {"add", "permit", "remove", "secret"}
Inodes == 1..(Cardinality(Writers) + 2)
None == 0
Unreadable == [k \in Keys |-> "torn"]
Empty == [k \in Keys |-> "absent"]

VARIABLES
  mem,            \* _credentials
  file, temp,     \* the inodes of credentials.json and credentials.tmp
  content,        \* what each inode holds
  writer,         \* the request each writer serves, and how far it has come
  requests, trouble,
  \* history
  revoked,        \* keys whose revocation or removal has been answered
  overlapped      \* two requests have been saving at one time

credentialVars == <<mem, file, temp, content, writer, requests, trouble,
                    revoked, overlapped>>

Idle == [pc |-> "idle", kind |-> "none", key |-> "none", level |-> "absent",
         image |-> Empty, inode |-> None]

CredentialsInit ==
  /\ mem = Empty /\ file = None /\ temp = None
  /\ content = [i \in Inodes |-> Unreadable]
  /\ writer = [w \in Writers |-> Idle]
  /\ requests = 0 /\ trouble = 0 /\ revoked = {} /\ overlapped = FALSE

Busy == {w \in Writers : writer[w].pc # "idle"}

\* tradeable: a testnet key that may place orders before any other that may.
Tradeable(store) ==
  LET enabled == {k \in Keys : store[k] = "trading"}
  IN  IF enabled \cap Testnet # {} THEN enabled \cap Testnet ELSE enabled

\* load: a file that is missing or cannot be parsed is an empty store.
OnDisk == IF file = None \/ content[file] = Unreadable THEN Empty ELSE content[file]

--------------------------------------------------------------------------------

\* add, set_trade_enabled, remove and set_secret up to the call of save.  The last
\* two run on the event loop, one at a time.
Request(w, kind, key, level) ==
  /\ writer[w].pc = "idle" /\ requests < MaxRequests
  /\ kind \in {"remove", "secret"} =>
       \A v \in Busy : writer[v].kind \notin {"remove", "secret"}
  /\ kind \in {"permit", "remove"} => mem[key] # "absent"
  /\ kind \in {"remove", "secret"} => level = "absent"
  /\ kind \in {"add", "permit"} => level # "absent"
  /\ requests' = requests + 1
  /\ mem' = IF kind = "secret" THEN mem ELSE [mem EXCEPT ![key] = level]
  /\ writer' = [writer EXCEPT ![w] = [Idle EXCEPT !.pc = "changed", !.kind = kind,
                                                  !.key = key, !.level = level]]
  /\ revoked' = IF level = "trading" THEN revoked \ {key} ELSE revoked
  /\ overlapped' = (overlapped \/ Busy # {})
  /\ UNCHANGED <<file, temp, content, trouble>>

\* Mutant of Image: the payload is written without the removals.
ImageMerged(w) == [k \in Keys |-> IF mem[k] # "trading" THEN OnDisk[k] ELSE mem[k]]

\* The payload of save.
Image(w) == mem

Snapshot(w) ==
  /\ writer[w].pc = "changed"
  /\ writer' = [writer EXCEPT ![w].pc = "composed", ![w].image = Image(w)]
  /\ UNCHANGED <<mem, file, temp, content, requests, trouble, revoked, overlapped>>

Fresh == CHOOSE i \in Inodes : i \notin {file, temp} \cup {writer[v].inode : v \in Busy}

\* Mutant of Target: the file is written in place.
TargetInPlace == IF file = None THEN Fresh ELSE file

\* os.open with O_CREAT and O_TRUNC: the temporary file of another save is taken over.
Target == IF temp = None THEN Fresh ELSE temp

Open(w) ==
  /\ writer[w].pc = "composed"
  /\ temp' = Target
  /\ content' = [content EXCEPT ![Target] = Unreadable]
  /\ writer' = [writer EXCEPT ![w].pc = "opened", ![w].inode = Target]
  /\ UNCHANGED <<mem, file, requests, trouble, revoked, overlapped>>

\* json.dump and the close.  Over an image another save wrote first, the tail of
\* the longer one may stay.
Write(w) ==
  /\ writer[w].pc = "opened"
  /\ LET i == writer[w].inode
     IN  \E result \in {writer[w].image} \cup (IF content[i] = Unreadable THEN {} ELSE {Unreadable}) :
           content' = [content EXCEPT ![i] = result]
  /\ writer' = [writer EXCEPT ![w].pc = "written"]
  /\ UNCHANGED <<mem, file, temp, requests, trouble, revoked, overlapped>>

Ended(w) == writer' = [writer EXCEPT ![w] = Idle]

\* temp.replace, and the answer; without a temporary file it raises.
Replace(w) ==
  /\ writer[w].pc = "written" /\ Ended(w)
  /\ IF temp = None THEN UNCHANGED <<file, revoked>>
     ELSE /\ file' = temp
          /\ revoked' = IF writer[w].level # "trading" /\ writer[w].kind # "secret"
                        THEN revoked \cup {writer[w].key} ELSE revoked
  /\ temp' = None
  /\ UNCHANGED <<mem, content, requests, trouble, overlapped>>

\* The disk refuses: the request fails, with the change in memory.
SaveFails(w) ==
  /\ writer[w].pc \in {"composed", "opened", "written"} /\ Ended(w)
  /\ trouble < MaxTrouble /\ trouble' = trouble + 1
  /\ UNCHANGED <<mem, file, temp, content, requests, revoked, overlapped>>

\* The process is killed and started again; what was being written may be torn.
KillRestart ==
  /\ trouble < MaxTrouble /\ trouble' = trouble + 1
  /\ mem' = OnDisk
  /\ writer' = [w \in Writers |-> Idle]
  /\ UNCHANGED <<file, temp, content, requests, revoked, overlapped>>

CredentialsNext ==
  \/ \E w \in Writers, kind \in Kinds, key \in Keys, level \in Levels :
       Request(w, kind, key, level)
  \/ \E w \in Writers : Snapshot(w) \/ Open(w) \/ Write(w) \/ Replace(w) \/ SaveFails(w)
  \/ KillRestart

CredentialsSpec == CredentialsInit /\ [][CredentialsNext]_credentialVars

--------------------------------------------------------------------------------

\* Requests that come one at a time leave a file that can be read, whatever fails
\* and whenever the process dies.
FileIsWhole == ~overlapped /\ file # None => content[file] # Unreadable

\* A revocation or a removal that was answered stays, in memory and over any
\* restart: live trading will not pick that key, as long as requests come one at a time.
RevocationSurvives ==
  ~overlapped => revoked \cap (Tradeable(mem) \cup Tradeable(OnDisk)) = {}

\* VIOLATED: save is to "write atomically": the file is whole when requests overlap, too.
SavesAtomically == file # None => content[file] # Unreadable

\* VIOLATED: The permission is "the whole consent record": one that was taken back is not
\* found on disk again because another request was saving.
ConsentStays == revoked \cap Tradeable(OnDisk) = {}

================================================================================
