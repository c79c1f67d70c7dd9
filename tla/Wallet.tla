------------------------------ MODULE Wallet ------------------------------
(***************************************************************************)
(* The keys of the wallet (CWallet) as the threads of the RPC server use   *)
(* them, with the timers that lock a key again (CDocker) and the database  *)
(* (CWalletDB).                                                            *)
(*                                                                         *)
(* An RPC handler first asks for the state of a key and then calls the     *)
(* wallet, which takes its own lock: between two calls other handlers and  *)
(* the timer thread run.  Every call under the lock is one action.         *)
(*                                                                         *)
(* A cipher is the passphrase it was made with: the secret is recovered    *)
(* with that passphrase and no other.  Time is counted in seconds.         *)
(***************************************************************************)
EXTENDS Integers, FiniteSets, Sequences, Functions

CONSTANTS
    Dests,          \* addresses of keys
    Threads,        \* event threads of the RPC server
    Passphrases,
    Timeouts,       \* timeouts of unlockkey, 0 for none
    UNLOCKKEY_RELEASE_DEFAULT_TIME,
    MaxTime,        \* bound: the last second, by which every timer expires
    MaxTimers,      \* bound: timers that are set
    MaxFailures,    \* bound: operations of the database that fail
    MaxRestarts     \* bound: restarts of the node

ASSUME TimesAssumption ==
    /\ Timeouts \subseteq Nat
    /\ UNLOCKKEY_RELEASE_DEFAULT_TIME \in Nat \ {0}

VARIABLES
    mapKeyStore,       \* keys in memory, by address
    dbWallet,          \* keys in the database, by address
    mapTimerById,      \* timers that were set and have not run
    mapTimerByExpiry,  \* those of them that the timer thread has not queued
    vWorkQueue,        \* identifiers the timer thread works off
    fnCallback,        \* the timer whose callback is about to run
    nTimerIdAlloc,     \* last identifier given to a timer
    thread,            \* where the handler of each thread is
    now,
    asked,             \* history: timeout of the last unlock of each key
    nFailures, nRestarts

timers == <<mapTimerById, mapTimerByExpiry, nTimerIdAlloc>>
worker == <<vWorkQueue, fnCallback>>
bounds == <<now, nFailures, nRestarts>>
vars == <<mapKeyStore, dbWallet, timers, worker, thread, asked, bounds>>

Empty == <<>>
Idle == [at |-> "idle"]
NoTimer == 0
NoCallback == [id |-> NoTimer]

PRIVATE_KEY == "private"
PUBLIC_KEY == "public"

\* What the database keeps of a key: its version and its cipher.
Saved(version, passphrase) == [version |-> version, cipher |-> passphrase]

\* f.erase(k) and f[k] = v.
WithoutKey(f, k) == Restrict(f, DOMAIN f \ {k})
WithKey(f, k, v) == [x \in DOMAIN f \cup {k} |-> IF x = k THEN v ELSE f[x]]

Init ==
    /\ mapKeyStore = Empty
    /\ dbWallet = Empty
    /\ mapTimerById = Empty
    /\ mapTimerByExpiry = {}
    /\ vWorkQueue = <<>>
    /\ fnCallback = NoCallback
    /\ nTimerIdAlloc = 0
    /\ thread = [t \in Threads |-> Idle]
    /\ asked = [d \in Dests |-> 0]
    /\ now = 0
    /\ nFailures = 0
    /\ nRestarts = 0

---------------------------------------------------------------------------
(* A key in memory (CWalletKeyStore, CKey).                                *)

\* A key as it is inserted: locked, without a timer.
CWalletKeyStore(saved) ==
    [key |-> saved, locked |-> TRUE, nTimerId |-> NoTimer, nAutoLockTime |-> -1, nAutoDelayTime |-> 0]

HaveKey(d) == d \in DOMAIN mapKeyStore
HavePrivKey(d) == HaveKey(d) /\ mapKeyStore[d].key.version = PRIVATE_KEY

\* CWallet::Lock on a keystore k; the timer is given up only if there is one.
LockKey(k) ==
    IF k.nTimerId = NoTimer THEN [k EXCEPT !.locked = TRUE] ELSE CWalletKeyStore(k.key)

\* CKey::Encrypt then Lock: the new cipher; the timer's fields are not touched.
EncryptKey(k, passphrase) ==
    [k EXCEPT !.key = Saved(PRIVATE_KEY, passphrase), !.locked = TRUE]

---------------------------------------------------------------------------
(* Timers (CDocker::SetTimer, CancelTimer).                                *)

\* The next identifier stands for a timer on d that expires in nSeconds.
SetTimer(d, nSeconds) ==
    /\ nTimerIdAlloc < MaxTimers /\ now + nSeconds <= MaxTime
    /\ nTimerIdAlloc' = nTimerIdAlloc + 1
    /\ mapTimerById' = WithKey(mapTimerById, nTimerIdAlloc', [dest |-> d, tExpiryAt |-> now + nSeconds])
    /\ mapTimerByExpiry' = mapTimerByExpiry \cup {nTimerIdAlloc'}

CancelTimer(id) ==
    /\ mapTimerById' = WithoutKey(mapTimerById, id)
    /\ mapTimerByExpiry' = mapTimerByExpiry \ {id}
    /\ UNCHANGED nTimerIdAlloc

\* A timer replaced by a new one on the same key.
RenewTimer_NotSet(d, id, nSeconds) == CancelTimer(id)

RenewTimer(d, id, nSeconds) ==
    /\ nTimerIdAlloc < MaxTimers /\ now + nSeconds <= MaxTime
    /\ nTimerIdAlloc' = nTimerIdAlloc + 1
    /\ mapTimerById' = WithKey(WithoutKey(mapTimerById, id), nTimerIdAlloc', [dest |-> d, tExpiryAt |-> now + nSeconds])
    /\ mapTimerByExpiry' = (mapTimerByExpiry \ {id}) \cup {nTimerIdAlloc'}

\* A database operation succeeds or, while the bound allows it, fails.
DbResult(fDone) ==
    /\ fDone \/ nFailures < MaxFailures
    /\ nFailures' = IF fDone THEN nFailures ELSE nFailures + 1

Goes(t, to) == thread' = [thread EXCEPT ![t] = to]

---------------------------------------------------------------------------
(* unlockkey: the key is private and locked when the handler looks.        *)

RPCUnlockKey(t, d, passphrase, nTimeout) ==
    /\ thread[t] = Idle
    /\ HavePrivKey(d) /\ mapKeyStore[d].locked
    /\ Goes(t, [at |-> "unlock", dest |-> d, passphrase |-> passphrase, nTimeout |-> nTimeout])
    /\ UNCHANGED <<mapKeyStore, dbWallet, timers, worker, asked, bounds>>

CanUnlock(d, passphrase) ==
    HavePrivKey(d) /\ mapKeyStore[d].locked /\ mapKeyStore[d].key.cipher = passphrase

\* CWallet::Unlock once the passphrase was right.
Unlocks(d, nTimeout) ==
    /\ asked' = [asked EXCEPT ![d] = nTimeout]
    /\ IF nTimeout > 0
       THEN /\ SetTimer(d, nTimeout)
            /\ mapKeyStore' = [mapKeyStore EXCEPT ![d].locked = FALSE,
                                                  ![d].nAutoDelayTime = nTimeout,
                                                  ![d].nAutoLockTime = now + nTimeout,
                                                  ![d].nTimerId = nTimerIdAlloc']
       ELSE /\ mapKeyStore' = [mapKeyStore EXCEPT ![d].locked = FALSE]
            /\ UNCHANGED timers

\* The call of unlockkey, or of removekey, which goes on to remove the key.
Unlock(t) ==
    /\ thread[t].at \in {"unlock", "removeUnlock"}
    /\ IF CanUnlock(thread[t].dest, thread[t].passphrase)
       THEN /\ Unlocks(thread[t].dest, thread[t].nTimeout)
            /\ Goes(t, IF thread[t].at = "unlock" THEN Idle ELSE [at |-> "remove", dest |-> thread[t].dest])
       ELSE /\ Goes(t, Idle)
            /\ UNCHANGED <<mapKeyStore, timers, asked>>
    /\ UNCHANGED <<dbWallet, worker, bounds>>

---------------------------------------------------------------------------
(* lockkey: the key is private; a locked key is left as it is.             *)

RPCLockKey(t, d) ==
    /\ thread[t] = Idle
    /\ HavePrivKey(d) /\ ~mapKeyStore[d].locked
    /\ Goes(t, [at |-> "lock", dest |-> d])
    /\ UNCHANGED <<mapKeyStore, dbWallet, timers, worker, asked, bounds>>

Lock(t) ==
    /\ thread[t].at \in {"lock", "removeLock"}
    /\ LET d == thread[t].dest
       IN IF HavePrivKey(d)
          THEN /\ mapKeyStore' = [mapKeyStore EXCEPT ![d] = LockKey(@)]
               /\ CancelTimer(mapKeyStore[d].nTimerId)
          ELSE UNCHANGED <<mapKeyStore, timers>>
    /\ Goes(t, IF thread[t].at = "lock" THEN Idle ELSE [thread[t] EXCEPT !.at = "removeUnlock"])
    /\ UNCHANGED <<dbWallet, worker, asked, bounds>>

---------------------------------------------------------------------------
(* removekey: a private key is locked, unlocked with the given passphrase  *)
(* and removed, in three calls; a public key is removed at once.           *)

RPCRemoveKey(t, d, passphrase) ==
    /\ thread[t] = Idle
    /\ HaveKey(d)
    /\ Goes(t, IF HavePrivKey(d)
               THEN [at |-> "removeLock", dest |-> d, passphrase |-> passphrase,
                     nTimeout |-> UNLOCKKEY_RELEASE_DEFAULT_TIME]
               ELSE [at |-> "remove", dest |-> d])
    /\ UNCHANGED <<mapKeyStore, dbWallet, timers, worker, asked, bounds>>

\* The timer of the key is not cancelled.
RemoveKey(t) ==
    /\ thread[t].at = "remove"
    /\ LET d == thread[t].dest
       IN IF HaveKey(d)
          THEN \E fErased \in BOOLEAN :
                 /\ DbResult(fErased)
                 /\ IF fErased
                    THEN /\ mapKeyStore' = WithoutKey(mapKeyStore, d)
                         /\ dbWallet' = WithoutKey(dbWallet, d)
                    ELSE UNCHANGED <<mapKeyStore, dbWallet>>
          ELSE UNCHANGED <<mapKeyStore, dbWallet, nFailures>>
    /\ Goes(t, Idle)
    /\ UNCHANGED <<timers, worker, asked, now, nRestarts>>

---------------------------------------------------------------------------
(* importprivkey, importpubkey and importkey; getnewkey is the first with  *)
(* an address no other request names.                                      *)

RPCImportKey(t, d, saved) ==
    /\ thread[t] = Idle
    /\ IF saved.version = PRIVATE_KEY THEN ~HavePrivKey(d) ELSE ~HaveKey(d)
    /\ Goes(t, [at |-> "add", dest |-> d, key |-> saved])
    /\ UNCHANGED <<mapKeyStore, dbWallet, timers, worker, asked, bounds>>

\* A private key replaces a public one; nothing else is replaced.
InsertKey(d, saved) == ~HaveKey(d) \/ (~HavePrivKey(d) /\ saved.version = PRIVATE_KEY)

\* What is in memory after UpdateKey: if it failed the entry is erased.
AddedKeys_NotUndone(d, saved, fSaved) == WithKey(mapKeyStore, d, CWalletKeyStore(saved))

AddedKeys(d, saved, fSaved) ==
    IF fSaved THEN WithKey(mapKeyStore, d, CWalletKeyStore(saved)) ELSE WithoutKey(mapKeyStore, d)

AddKey(t) ==
    /\ thread[t].at = "add"
    /\ LET d == thread[t].dest
           saved == thread[t].key
       IN IF InsertKey(d, saved)
          THEN \E fSaved \in BOOLEAN :
                 /\ DbResult(fSaved)
                 /\ mapKeyStore' = AddedKeys(d, saved, fSaved)
                 /\ dbWallet' = IF fSaved THEN WithKey(dbWallet, d, saved) ELSE dbWallet
          ELSE UNCHANGED <<mapKeyStore, dbWallet, nFailures>>
    /\ Goes(t, Idle)
    /\ UNCHANGED <<timers, worker, asked, now, nRestarts>>

---------------------------------------------------------------------------
(* encryptkey: the passphrase of a private key is changed.                 *)

RPCEncryptKey(t, d, passphrase, old) ==
    /\ thread[t] = Idle
    /\ HavePrivKey(d)
    /\ Goes(t, [at |-> "encrypt", dest |-> d, passphrase |-> passphrase, old |-> old])
    /\ UNCHANGED <<mapKeyStore, dbWallet, timers, worker, asked, bounds>>

\* A copy is encrypted and saved first, the key itself after that.
Encrypt(t) ==
    /\ thread[t].at = "encrypt"
    /\ LET d == thread[t].dest
       IN IF HavePrivKey(d) /\ mapKeyStore[d].key.cipher = thread[t].old
          THEN \E fSaved \in BOOLEAN :
                 /\ DbResult(fSaved)
                 /\ IF fSaved
                    THEN /\ mapKeyStore' = [mapKeyStore EXCEPT ![d] = EncryptKey(@, thread[t].passphrase)]
                         /\ dbWallet' = [dbWallet EXCEPT ![d] = Saved(PRIVATE_KEY, thread[t].passphrase)]
                    ELSE UNCHANGED <<mapKeyStore, dbWallet>>
          ELSE UNCHANGED <<mapKeyStore, dbWallet, nFailures>>
    /\ Goes(t, Idle)
    /\ UNCHANGED <<timers, worker, asked, now, nRestarts>>

---------------------------------------------------------------------------
(* Signing, under the shared lock, and the renewal of the key's timer      *)
(* after that, under the exclusive one.                                    *)

SignPubKey(d) == HavePrivKey(d) /\ ~mapKeyStore[d].locked

Sign(t, d) ==
    /\ thread[t] = Idle
    /\ SignPubKey(d)
    /\ Goes(t, [at |-> "update", dest |-> d])
    /\ UNCHANGED <<mapKeyStore, dbWallet, timers, worker, asked, bounds>>

UpdateAutoLock(t) ==
    /\ thread[t].at = "update"
    /\ LET d == thread[t].dest
       IN IF HavePrivKey(d) /\ mapKeyStore[d].nAutoDelayTime > 0
          THEN /\ RenewTimer(d, mapKeyStore[d].nTimerId, mapKeyStore[d].nAutoDelayTime)
               /\ mapKeyStore' = [mapKeyStore EXCEPT ![d].nAutoLockTime = now + mapKeyStore[d].nAutoDelayTime,
                                                     ![d].nTimerId = nTimerIdAlloc']
          ELSE UNCHANGED <<mapKeyStore, timers>>
    /\ Goes(t, Idle)
    /\ UNCHANGED <<dbWallet, worker, asked, bounds>>

---------------------------------------------------------------------------
(* The timer thread (CDocker::TimerProc).                                  *)

Due == {id \in mapTimerByExpiry : mapTimerById[id].tExpiryAt <= now}

ExpiresBefore(i, j) ==
    \/ mapTimerById[i].tExpiryAt < mapTimerById[j].tExpiryAt
    \/ mapTimerById[i].tExpiryAt = mapTimerById[j].tExpiryAt /\ i < j

TimerQueue ==
    /\ vWorkQueue = <<>> /\ fnCallback = NoCallback
    /\ Due # {}
    /\ \E queue \in [1 .. Cardinality(Due) -> Due] :
          /\ \A i, j \in DOMAIN queue : i < j => ExpiresBefore(queue[i], queue[j])
          /\ vWorkQueue' = queue
    /\ mapTimerByExpiry' = mapTimerByExpiry \ Due
    /\ UNCHANGED <<mapKeyStore, dbWallet, mapTimerById, nTimerIdAlloc, fnCallback, thread, asked, bounds>>

\* A timer that was cancelled after it was queued is passed over.
TimerTake ==
    /\ vWorkQueue # <<>> /\ fnCallback = NoCallback
    /\ LET id == Head(vWorkQueue)
       IN /\ fnCallback' = IF id \in DOMAIN mapTimerById THEN [id |-> id, dest |-> mapTimerById[id].dest] ELSE NoCallback
          /\ mapTimerById' = WithoutKey(mapTimerById, id)
    /\ vWorkQueue' = Tail(vWorkQueue)
    /\ UNCHANGED <<mapKeyStore, dbWallet, mapTimerByExpiry, nTimerIdAlloc, thread, asked, bounds>>

\* Whether the callback with identifier id is still the one of the key.
IsTimerOf_Any(k, id) == TRUE

IsTimerOf(k, id) == k.nTimerId = id

AutoLock ==
    /\ fnCallback # NoCallback
    /\ LET d == fnCallback.dest
       IN mapKeyStore' = IF HavePrivKey(d) /\ IsTimerOf(mapKeyStore[d], fnCallback.id)
                         THEN [mapKeyStore EXCEPT ![d] = CWalletKeyStore(@.key)]
                         ELSE mapKeyStore
    /\ fnCallback' = NoCallback
    /\ UNCHANGED <<dbWallet, timers, vWorkQueue, thread, asked, bounds>>

Tick ==
    /\ now < MaxTime
    /\ now' = now + 1
    /\ UNCHANGED <<mapKeyStore, dbWallet, timers, worker, thread, asked, nFailures, nRestarts>>

\* The node stops at any moment; LoadDB reads the keys, all of them locked.
Restart ==
    /\ nRestarts < MaxRestarts
    /\ nRestarts' = nRestarts + 1
    /\ mapKeyStore' = [d \in DOMAIN dbWallet |-> CWalletKeyStore(dbWallet[d])]
    /\ mapTimerById' = Empty
    /\ mapTimerByExpiry' = {}
    /\ vWorkQueue' = <<>>
    /\ fnCallback' = NoCallback
    /\ thread' = [t \in Threads |-> Idle]
    /\ UNCHANGED <<dbWallet, nTimerIdAlloc, asked, now, nFailures>>

Keys == {Saved(PUBLIC_KEY, "none")} \cup {Saved(PRIVATE_KEY, p) : p \in Passphrases}

Request(t) ==
    \E d \in Dests :
       \/ \E p \in Passphrases, n \in Timeouts : RPCUnlockKey(t, d, p, n)
       \/ RPCLockKey(t, d)
       \/ \E p \in Passphrases : RPCRemoveKey(t, d, p)
       \/ \E saved \in Keys : RPCImportKey(t, d, saved)
       \/ \E p, old \in Passphrases : RPCEncryptKey(t, d, p, old)
       \/ Sign(t, d)

Call(t) == Unlock(t) \/ Lock(t) \/ RemoveKey(t) \/ AddKey(t) \/ Encrypt(t) \/ UpdateAutoLock(t)

TimerProc == TimerQueue \/ TimerTake \/ AutoLock

Next ==
    \/ \E t \in Threads : Request(t) \/ Call(t)
    \/ TimerProc
    \/ Tick
    \/ Restart

Spec == Init /\ [][Next]_vars

---------------------------------------------------------------------------
(* Properties.                                                             *)

\* Type correctness of the wallet, the timers and the threads' places.
TypeOK ==
    /\ DOMAIN mapKeyStore \subseteq Dests
    /\ DOMAIN dbWallet \subseteq Dests
    /\ \A d \in DOMAIN mapKeyStore :
          /\ mapKeyStore[d].key \in Keys
          /\ mapKeyStore[d].locked \in BOOLEAN
          /\ mapKeyStore[d].nTimerId \in 0 .. nTimerIdAlloc
    /\ mapTimerByExpiry \subseteq DOMAIN mapTimerById
    /\ \A t \in Threads : thread[t].at \in {"idle", "unlock", "lock", "removeLock", "removeUnlock",
                                             "remove", "add", "encrypt", "update"}

\* Every key in memory is in the database with the same version and cipher,
\* so that a restart neither loses it nor brings an old passphrase back: what
\* AddKey, Encrypt and RemoveKey do when the database fails (CWallet::AddKey
\* takes the key back, Encrypt saves before it changes the key in memory).
MemoryIsSaved ==
    \A d \in DOMAIN mapKeyStore : d \in DOMAIN dbWallet /\ dbWallet[d] = mapKeyStore[d].key

\* The timer thread does not lock a key before the time that its last unlock
\* or signature allowed, whatever callback of an earlier timer was already on
\* its way when UpdateAutoLock, Lock or Unlock replaced the timer
\* (CWallet::AutoLock compares the identifier).
NotLockedEarly ==
    [][\A d \in DOMAIN mapKeyStore :
          AutoLock /\ ~mapKeyStore[d].locked /\ mapKeyStore'[d].locked
            => now >= mapKeyStore[d].nAutoLockTime]_vars

\* A key unlocked for a time is locked again, or gone, unless signatures keep
\* renewing the time: the timer of the key is never lost between Unlock,
\* UpdateAutoLock, Encrypt and a callback (unlockkey's timeout).
OpenForATime(d) == HavePrivKey(d) /\ ~mapKeyStore[d].locked /\ asked[d] > 0

TimedUnlockEnds == \A d \in Dests : OpenForATime(d) ~> ~OpenForATime(d)
============================================================================
