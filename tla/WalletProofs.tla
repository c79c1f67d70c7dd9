----------------------------- MODULE WalletProofs -----------------------------
(***************************************************************************)
(* The keys in memory are those of the database, and the timer thread      *)
(* locks no key early, for any addresses, passphrases, threads, timeouts,  *)
(* failures and restarts.                                                  *)
(*                                                                         *)
(* That no key is locked early needs the way of a timer through the timer  *)
(* thread: a timer that is set expires when its key may be locked, one in  *)
(* the work queue has expired unless it was cancelled, and a callback that *)
(* still has the identifier of its key comes when the key may be locked    *)
(* (Timed).  A new timer is told from all these by its identifier, which   *)
(* none of them has had (TimersTyped).                                     *)
(***************************************************************************)
EXTENDS Wallet, SequenceTheorems, FiniteSetTheorems, TLAPS

\* A key in memory.
KeyStores ==
    [key : Keys, locked : BOOLEAN, nTimerId : Nat, nAutoLockTime : Int, nAutoDelayTime : Nat]

\* The places a thread can be at.
Places ==
    {Idle}
      \cup [at : {"unlock", "removeLock", "removeUnlock"}, dest : Dests,
            passphrase : Passphrases, nTimeout : Nat]
      \cup [at : {"lock", "remove", "update"}, dest : Dests]
      \cup [at : {"add"}, dest : Dests, key : Keys]
      \cup [at : {"encrypt"}, dest : Dests, passphrase : Passphrases, old : Passphrases]

\* The types of the wallet and of its threads.
KeysTyped ==
    /\ mapKeyStore \in [DOMAIN mapKeyStore -> KeyStores]
    /\ dbWallet \in [DOMAIN dbWallet -> Keys]
    /\ thread \in [Threads -> Places]

\* The types of the timers; identifiers are given out in order, and a timer is
\* queued or waits to be.
TimersTyped ==
    /\ now \in Nat /\ nTimerIdAlloc \in Nat
    /\ mapTimerById \in [DOMAIN mapTimerById -> [dest : Dests, tExpiryAt : Nat]]
    /\ DOMAIN mapTimerById \subseteq 1 .. nTimerIdAlloc
    /\ mapTimerByExpiry \subseteq DOMAIN mapTimerById
    /\ vWorkQueue \in Seq(1 .. nTimerIdAlloc)
    /\ \A i \in DOMAIN vWorkQueue : vWorkQueue[i] \notin mapTimerByExpiry
    /\ fnCallback = NoCallback \/ fnCallback \in [id : 1 .. nTimerIdAlloc, dest : Dests]
    /\ \A d \in DOMAIN mapKeyStore : mapKeyStore[d].nTimerId =< nTimerIdAlloc

\* A timer expires when its key may be locked; what is queued has expired or
\* was cancelled; a callback of the key's own timer is in time.
Timed ==
    /\ \A d \in DOMAIN mapKeyStore :
          /\ mapKeyStore[d].nTimerId \in DOMAIN mapTimerById =>
                mapTimerById[mapKeyStore[d].nTimerId].tExpiryAt = mapKeyStore[d].nAutoLockTime
          /\ mapKeyStore[d].nTimerId = fnCallback.id /\ fnCallback.id # NoTimer =>
                now >= mapKeyStore[d].nAutoLockTime
    /\ \A i \in DOMAIN vWorkQueue :
          vWorkQueue[i] \in DOMAIN mapTimerById => mapTimerById[vWorkQueue[i]].tExpiryAt =< now

\* The inductive invariant.
WalletInv == KeysTyped /\ MemoryIsSaved /\ TimersTyped /\ Timed

-------------------------------------------------------------------------------
(* Maps and keys                                                           *)

\* Erasing from a map and assigning in it.
LEMMA MapFacts ==
    ASSUME NEW f, NEW k, NEW v
    PROVE  /\ DOMAIN WithoutKey(f, k) = DOMAIN f \ {k}
           /\ \A x \in DOMAIN f \ {k} : WithoutKey(f, k)[x] = f[x]
           /\ WithoutKey(f, k) \in [DOMAIN f \ {k} -> {f[x] : x \in DOMAIN f}]
           /\ DOMAIN WithKey(f, k, v) = DOMAIN f \cup {k}
           /\ WithKey(f, k, v)[k] = v
           /\ \A x \in DOMAIN f \ {k} : WithKey(f, k, v)[x] = f[x]
           /\ WithKey(f, k, v) \in [DOMAIN f \cup {k} -> {f[x] : x \in DOMAIN f} \cup {v}]
BY DEF WithoutKey, WithKey, Restrict

\* The same for maps into a set.
LEMMA MapTypes ==
    ASSUME NEW S, NEW f, f \in [DOMAIN f -> S], NEW k, NEW v \in S
    PROVE  /\ WithoutKey(f, k) \in [DOMAIN WithoutKey(f, k) -> S]
           /\ WithKey(f, k, v) \in [DOMAIN WithKey(f, k, v) -> S]
<1>1. DOMAIN WithoutKey(f, k) = DOMAIN f \ {k} /\ DOMAIN WithKey(f, k, v) = DOMAIN f \cup {k}
  BY MapFacts, Zenon
<1>2. WithoutKey(f, k) \in [DOMAIN f \ {k} -> S]
  BY DEF WithoutKey, Restrict
<1>3. WithKey(f, k, v) \in [DOMAIN f \cup {k} -> S]
  BY DEF WithKey
<1> QED
  BY <1>1, <1>2, <1>3

\* A key as it is inserted.
LEMMA NewKey ==
    ASSUME NEW saved \in Keys
    PROVE  /\ CWalletKeyStore(saved) \in KeyStores
           /\ CWalletKeyStore(saved).key = saved /\ CWalletKeyStore(saved).nTimerId = 0
           /\ CWalletKeyStore(saved).locked = TRUE
BY DEF CWalletKeyStore, KeyStores, NoTimer

\* Locking keeps the key and its timer, or gives the timer up.
LEMMA LockedKey ==
    ASSUME NEW k \in KeyStores
    PROVE  /\ LockKey(k) \in KeyStores /\ LockKey(k).key = k.key
           /\ LockKey(k).nTimerId = 0
<1>1. CASE k.nTimerId = NoTimer
  BY <1>1, Zenon DEF LockKey, KeyStores, NoTimer
<1>2. CASE k.nTimerId # NoTimer
  <2>1. k.key \in Keys
    BY DEF KeyStores
  <2> QED
    BY <1>2, <2>1, NewKey, Zenon DEF LockKey
<1> QED
  BY <1>1, <1>2

\* Encrypting replaces the key and keeps its timer.
LEMMA EncryptedKey ==
    ASSUME NEW k \in KeyStores, NEW p \in Passphrases
    PROVE  /\ EncryptKey(k, p) \in KeyStores /\ EncryptKey(k, p).key = Saved(PRIVATE_KEY, p)
           /\ EncryptKey(k, p).nTimerId = k.nTimerId
           /\ EncryptKey(k, p).nAutoLockTime = k.nAutoLockTime
<1>1. Saved(PRIVATE_KEY, p) \in Keys
  BY DEF Keys
<1> HIDE DEF Keys
<1> QED
  BY <1>1, Zenon DEF EncryptKey, KeyStores

\* What a place says when a thread is there.
LEMMA PlaceFields ==
    ASSUME NEW p \in Places
    PROVE  /\ p.at \in {"unlock", "removeLock", "removeUnlock"} =>
                 /\ p.nTimeout \in Nat /\ p.dest \in Dests
                 /\ [p EXCEPT !.at = "removeUnlock"] \in Places
           /\ p.at \in {"lock", "remove", "update"} => p.dest \in Dests
           /\ p.at = "add" => p.dest \in Dests /\ p.key \in Keys
           /\ p.at = "encrypt" => p.dest \in Dests /\ p.passphrase \in Passphrases
           /\ [at |-> "remove", dest |-> p.dest] \in Places \/ p.dest \notin Dests
           /\ Idle \in Places
<1> HIDE DEF Keys
<1> QED
  BY DEF Places, Idle

\* Exchanging one key of the wallet.
LEMMA StoreChanged ==
    ASSUME KeysTyped, NEW d \in DOMAIN mapKeyStore, NEW k \in KeyStores,
           mapKeyStore' = [mapKeyStore EXCEPT ![d] = k]
    PROVE  /\ DOMAIN mapKeyStore' = DOMAIN mapKeyStore
           /\ mapKeyStore' \in [DOMAIN mapKeyStore' -> KeyStores]
           /\ mapKeyStore'[d] = k
           /\ \A e \in DOMAIN mapKeyStore : e # d => mapKeyStore'[e] = mapKeyStore[e]
<1>1. mapKeyStore \in [DOMAIN mapKeyStore -> KeyStores]
  BY DEF KeysTyped
<1> HIDE DEF KeyStores
<1> QED
  BY <1>1

-------------------------------------------------------------------------------
(* The calls under the wallet's lock                                       *)

\* A key that gets a timer.
WithTimer(r, time, id) == [r EXCEPT !.nAutoLockTime = time, !.nTimerId = id]

\* It stays the same key.
LEMMA TimedKey ==
    ASSUME NEW r \in KeyStores, NEW time \in Int, NEW id \in Nat
    PROVE  /\ WithTimer(r, time, id) \in KeyStores /\ WithTimer(r, time, id).key = r.key
           /\ WithTimer(r, time, id).nTimerId = id
           /\ WithTimer(r, time, id).nAutoLockTime = time
<1> HIDE DEF Keys
<1> DEFINE k == WithTimer(r, time, id)
<1> DEFINE a == [r EXCEPT !.nAutoLockTime = time]
<1>1. a \in KeyStores /\ a.key = r.key /\ a.nAutoLockTime = time
  BY DEF KeyStores
<1>0. k = [a EXCEPT !.nTimerId = id]
  BY DEF WithTimer
<1> HIDE DEF a, k
<1>2. k \in KeyStores /\ k.key = a.key /\ k.nTimerId = id /\ k.nAutoLockTime = a.nAutoLockTime
  BY <1>0, <1>1 DEF KeyStores
<1> QED
  BY <1>1, <1>2 DEF k

\* What Unlock does to the key it unlocks: the key stays, and gets a new timer or
\* keeps its own.
LEMMA UnlocksFacts ==
    ASSUME KeysTyped, TimersTyped, NEW d \in DOMAIN mapKeyStore, NEW n \in Nat, Unlocks(d, n)
    PROVE  \E k \in KeyStores :
              /\ mapKeyStore' = [mapKeyStore EXCEPT ![d] = k] /\ k.key = mapKeyStore[d].key
              /\ \/ /\ k.nTimerId = mapKeyStore[d].nTimerId /\ UNCHANGED timers
                    /\ k.nAutoLockTime = mapKeyStore[d].nAutoLockTime
                 \/ /\ SetTimer(d, n) /\ k.nTimerId = nTimerIdAlloc + 1
                    /\ k.nAutoLockTime = now + n
<1>1. mapKeyStore \in [DOMAIN mapKeyStore -> KeyStores] /\ mapKeyStore[d] \in KeyStores
      /\ now \in Nat /\ nTimerIdAlloc \in Nat
  BY DEF KeysTyped, TimersTyped
<1> HIDE DEF Keys
<1>2. CASE n > 0
  <2> DEFINE k == [mapKeyStore[d] EXCEPT !.locked = FALSE, !.nAutoDelayTime = n,
                      !.nAutoLockTime = now + n, !.nTimerId = nTimerIdAlloc + 1]
  <2>1. SetTimer(d, n) /\ nTimerIdAlloc' = nTimerIdAlloc + 1
    BY <1>2 DEF Unlocks, SetTimer
  <2>2. mapKeyStore' = [mapKeyStore EXCEPT ![d].locked = FALSE, ![d].nAutoDelayTime = n,
                           ![d].nAutoLockTime = now + n, ![d].nTimerId = nTimerIdAlloc + 1]
    BY <1>2, <2>1 DEF Unlocks
  <2>3. mapKeyStore' = [mapKeyStore EXCEPT ![d] = k]
    BY <1>1, <2>2, Zenon
  <2>4. k \in KeyStores /\ k.key = mapKeyStore[d].key /\ k.nTimerId = nTimerIdAlloc + 1
        /\ k.nAutoLockTime = now + n
    <3> DEFINE a == [mapKeyStore[d] EXCEPT !.locked = FALSE, !.nAutoDelayTime = n]
    <3>1. a \in KeyStores /\ a.key = mapKeyStore[d].key
      BY <1>1, Zenon DEF KeyStores
    <3>2. k = WithTimer(a, now + n, nTimerIdAlloc + 1)
      BY DEF WithTimer
    <3>3. now + n \in Int /\ nTimerIdAlloc + 1 \in Nat
      BY <1>1
    <3> HIDE DEF a, k, KeyStores
    <3> QED
      BY <3>1, <3>2, <3>3, TimedKey
  <2> HIDE DEF k
  <2> QED
    BY <2>1, <2>3, <2>4, Zenon
<1>3. CASE ~ (n > 0)
  <2> DEFINE k == [mapKeyStore[d] EXCEPT !.locked = FALSE]
  <2>1. mapKeyStore' = [mapKeyStore EXCEPT ![d] = k] /\ UNCHANGED timers
    BY <1>1, <1>3 DEF Unlocks
  <2>2. k \in KeyStores /\ k.key = mapKeyStore[d].key /\ k.nTimerId = mapKeyStore[d].nTimerId
        /\ k.nAutoLockTime = mapKeyStore[d].nAutoLockTime
    BY <1>1, Zenon DEF KeyStores
  <2> HIDE DEF k
  <2> QED
    BY <2>1, <2>2, Zenon
<1> QED
  BY <1>2, <1>3

\* A key that is exchanged for one with the same version and cipher stays saved.
LEMMA SameKeySaved ==
    ASSUME KeysTyped, MemoryIsSaved, NEW d \in DOMAIN mapKeyStore, NEW k \in KeyStores,
           mapKeyStore' = [mapKeyStore EXCEPT ![d] = k], k.key = mapKeyStore[d].key,
           UNCHANGED dbWallet
    PROVE  MemoryIsSaved' /\ mapKeyStore' \in [DOMAIN mapKeyStore' -> KeyStores]
<1>1. /\ DOMAIN mapKeyStore' = DOMAIN mapKeyStore
      /\ mapKeyStore' \in [DOMAIN mapKeyStore' -> KeyStores]
      /\ mapKeyStore'[d] = k
      /\ \A e \in DOMAIN mapKeyStore : e # d => mapKeyStore'[e] = mapKeyStore[e]
  BY StoreChanged, Zenon
<1> HIDE DEF KeyStores
<1> QED
  BY <1>1 DEF MemoryIsSaved

\* A key whose timer is given up, or kept, stays timed while the timers only go.
LEMMA TimerKept ==
    ASSUME TimersTyped, Timed, KeysTyped, UNCHANGED <<worker, now, nTimerIdAlloc>>,
           NEW d \in DOMAIN mapKeyStore, NEW k \in KeyStores, NEW id,
           mapKeyStore' = [mapKeyStore EXCEPT ![d] = k],
           \/ k.nTimerId = NoTimer
           \/ k.nTimerId = mapKeyStore[d].nTimerId /\ k.nAutoLockTime = mapKeyStore[d].nAutoLockTime,
           \/ CancelTimer(id)
           \/ UNCHANGED timers
    PROVE  TimersTyped' /\ Timed'
<1>1. /\ DOMAIN mapKeyStore' = DOMAIN mapKeyStore
      /\ mapKeyStore'[d] = k
      /\ \A e \in DOMAIN mapKeyStore : e # d => mapKeyStore'[e] = mapKeyStore[e]
  BY StoreChanged
<1>2. /\ DOMAIN mapTimerById' \subseteq DOMAIN mapTimerById
      /\ \A x \in DOMAIN mapTimerById' : mapTimerById'[x] = mapTimerById[x]
      /\ mapTimerByExpiry' \subseteq DOMAIN mapTimerById' /\ mapTimerByExpiry' \subseteq mapTimerByExpiry
      /\ mapTimerById' \in [DOMAIN mapTimerById' -> [dest : Dests, tExpiryAt : Nat]]
  <2>1. CASE UNCHANGED timers
    BY <2>1 DEF timers, TimersTyped
  <2>2. CASE CancelTimer(id)
    <3>1. mapTimerById' = WithoutKey(mapTimerById, id) /\ mapTimerByExpiry' = mapTimerByExpiry \ {id}
      BY <2>2 DEF CancelTimer
    <3>2. /\ mapTimerById \in [DOMAIN mapTimerById -> [dest : Dests, tExpiryAt : Nat]]
          /\ mapTimerByExpiry \subseteq DOMAIN mapTimerById
      BY DEF TimersTyped
    <3>3. /\ DOMAIN mapTimerById' = DOMAIN mapTimerById \ {id}
          /\ \A x \in DOMAIN mapTimerById \ {id} : mapTimerById'[x] = mapTimerById[x]
      BY <3>1 DEF WithoutKey, Restrict
    <3>4. mapTimerById' \in [DOMAIN mapTimerById \ {id} -> [dest : Dests, tExpiryAt : Nat]]
      BY <3>1, <3>2 DEF WithoutKey, Restrict
    <3> QED
      BY <3>1, <3>2, <3>3, <3>4
  <2> QED
    BY <2>1, <2>2
<1>3. /\ now' = now /\ nTimerIdAlloc' = nTimerIdAlloc /\ vWorkQueue' = vWorkQueue
      /\ fnCallback' = fnCallback
  BY DEF worker
<1>4. NoTimer \notin DOMAIN mapTimerById /\ NoTimer =< nTimerIdAlloc /\ NoTimer = 0
  BY DEF TimersTyped, NoTimer
<1>5. TimersTyped'
  <2>1. \A e \in DOMAIN mapKeyStore' : mapKeyStore'[e].nTimerId =< nTimerIdAlloc
    BY <1>1, <1>4 DEF TimersTyped
  <2> QED
    BY <1>2, <1>3, <2>1 DEF TimersTyped
<1>6. ASSUME NEW e \in DOMAIN mapKeyStore'
      PROVE  /\ mapKeyStore'[e].nTimerId \in DOMAIN mapTimerById' =>
                   mapTimerById'[mapKeyStore'[e].nTimerId].tExpiryAt = mapKeyStore'[e].nAutoLockTime
             /\ mapKeyStore'[e].nTimerId = fnCallback.id /\ fnCallback.id # NoTimer =>
                   now >= mapKeyStore'[e].nAutoLockTime
  <2>1. CASE e = d /\ k.nTimerId = NoTimer
    BY <1>1, <1>2, <1>4, <2>1
  <2>2. CASE e # d \/ k.nTimerId # NoTimer
    <3>1. /\ e \in DOMAIN mapKeyStore
          /\ mapKeyStore'[e].nTimerId = mapKeyStore[e].nTimerId
          /\ mapKeyStore'[e].nAutoLockTime = mapKeyStore[e].nAutoLockTime
      BY <1>1, <2>2
    <3> QED
      BY <1>2, <3>1 DEF Timed
  <2> QED
    BY <2>1, <2>2
<1>7. \A i \in DOMAIN vWorkQueue :
         vWorkQueue[i] \in DOMAIN mapTimerById' => mapTimerById'[vWorkQueue[i]].tExpiryAt =< now
  BY <1>2 DEF Timed
<1> QED
  BY <1>3, <1>5, <1>6, <1>7 DEF Timed

\* A sequence over a set is one over a larger set.
LEMMA SeqOfLarger ==
    ASSUME NEW S, NEW T, S \subseteq T, NEW q \in Seq(S)
    PROVE  q \in Seq(T)
<1>1. q \in [1 .. Len(q) -> S] /\ Len(q) \in Nat
  OBVIOUS
<1>2. q \in [1 .. Len(q) -> T]
  BY <1>1
<1> QED
  BY <1>1, <1>2, SeqDef

\* A key that gets a new timer is timed: nothing on its way has the identifier.
LEMMA TimerGiven ==
    ASSUME TimersTyped, Timed, KeysTyped, UNCHANGED <<worker, now>>,
           NEW d \in DOMAIN mapKeyStore, d \in Dests, NEW k \in KeyStores, NEW n \in Nat, NEW id,
           mapKeyStore' = [mapKeyStore EXCEPT ![d] = k],
           k.nTimerId = nTimerIdAlloc + 1, k.nAutoLockTime = now + n,
           SetTimer(d, n) \/ RenewTimer(d, id, n)
    PROVE  TimersTyped' /\ Timed'
<1> DEFINE new == nTimerIdAlloc + 1
           timer == [dest |-> d, tExpiryAt |-> now + n]
           Timer == [dest : Dests, tExpiryAt : Nat]
<1>1. /\ DOMAIN mapKeyStore' = DOMAIN mapKeyStore
      /\ mapKeyStore'[d] = k
      /\ \A e \in DOMAIN mapKeyStore : e # d => mapKeyStore'[e] = mapKeyStore[e]
  BY StoreChanged
<1>2. /\ now \in Nat /\ nTimerIdAlloc \in Nat /\ new \in Nat /\ timer \in Timer
      /\ mapTimerById \in [DOMAIN mapTimerById -> Timer]
      /\ DOMAIN mapTimerById \subseteq 1 .. nTimerIdAlloc
      /\ mapTimerByExpiry \subseteq DOMAIN mapTimerById
  BY DEF TimersTyped
<1>3. now' = now /\ nTimerIdAlloc' = new /\ vWorkQueue' = vWorkQueue /\ fnCallback' = fnCallback
  BY DEF worker, SetTimer, RenewTimer
<1>4. PICK old : /\ old = mapTimerById \/ old = WithoutKey(mapTimerById, id)
                 /\ mapTimerById' = WithKey(old, new, timer)
                 /\ mapTimerByExpiry' \subseteq DOMAIN old \cup {new}
                 /\ mapTimerByExpiry' \subseteq mapTimerByExpiry \cup {new}
  <2>1. DOMAIN WithoutKey(mapTimerById, id) = DOMAIN mapTimerById \ {id}
    BY DEF WithoutKey, Restrict
  <2>2. CASE SetTimer(d, n)
    BY <1>2, <1>3, <2>2 DEF SetTimer
  <2>3. CASE RenewTimer(d, id, n)
    BY <1>2, <1>3, <2>1, <2>3 DEF RenewTimer
  <2> QED
    BY <2>2, <2>3
<1>5. /\ DOMAIN old \subseteq DOMAIN mapTimerById /\ old \in [DOMAIN old -> Timer]
      /\ \A x \in DOMAIN old : old[x] = mapTimerById[x]
  BY <1>2, <1>4 DEF WithoutKey, Restrict
<1> HIDE DEF timer, Timer, new
<1>6. /\ DOMAIN mapTimerById' = DOMAIN old \cup {new}
      /\ mapTimerById' \in [DOMAIN mapTimerById' -> Timer]
      /\ mapTimerById'[new] = timer
      /\ \A x \in DOMAIN old \ {new} : mapTimerById'[x] = old[x]
  BY <1>2, <1>4, <1>5 DEF WithKey
<1>7. /\ new \notin 1 .. nTimerIdAlloc /\ new \in 1 .. new
      /\ 1 .. nTimerIdAlloc \subseteq 1 .. new /\ nTimerIdAlloc =< new
  BY <1>2 DEF new
<1>8. TimersTyped'
  <2>1. vWorkQueue \in Seq(1 .. new)
    <3>1. vWorkQueue \in Seq(1 .. nTimerIdAlloc)
      BY DEF TimersTyped
    <3> QED
      BY <1>7, <3>1, SeqOfLarger, Zenon
  <2>2. fnCallback = NoCallback \/ fnCallback \in [id : 1 .. new, dest : Dests]
    BY <1>7 DEF TimersTyped
  <2>3. \A e \in DOMAIN mapKeyStore' : mapKeyStore'[e].nTimerId =< new
    <3>1. ASSUME NEW e \in DOMAIN mapKeyStore, e # d
          PROVE  mapKeyStore[e].nTimerId =< new
      <4>1. mapKeyStore[e].nTimerId =< nTimerIdAlloc /\ mapKeyStore[e].nTimerId \in Nat
        BY DEF TimersTyped, KeysTyped, KeyStores
      <4> QED
        BY <1>2, <1>7, <4>1
    <3> QED
      BY <1>1, <1>2, <3>1 DEF new
  <2>4. DOMAIN mapTimerById' \subseteq 1 .. new /\ mapTimerByExpiry' \subseteq DOMAIN mapTimerById'
    BY <1>2, <1>4, <1>5, <1>6, <1>7
  <2>5. \A i \in DOMAIN vWorkQueue : vWorkQueue[i] \notin mapTimerByExpiry'
    <3>1. ASSUME NEW i \in DOMAIN vWorkQueue
          PROVE  vWorkQueue[i] \in 1 .. nTimerIdAlloc /\ vWorkQueue[i] \notin mapTimerByExpiry
      BY DEF TimersTyped
    <3> QED
      BY <1>4, <1>7, <3>1
  <2> QED
    BY <1>2, <1>3, <1>6, <2>1, <2>2, <2>3, <2>4, <2>5 DEF TimersTyped, Timer
<1>9. fnCallback.id # new
  BY <1>2, <1>7 DEF TimersTyped, NoCallback, NoTimer
<1>10. ASSUME NEW e \in DOMAIN mapKeyStore'
       PROVE  /\ mapKeyStore'[e].nTimerId \in DOMAIN mapTimerById' =>
                    mapTimerById'[mapKeyStore'[e].nTimerId].tExpiryAt = mapKeyStore'[e].nAutoLockTime
              /\ mapKeyStore'[e].nTimerId = fnCallback.id /\ fnCallback.id # NoTimer =>
                    now >= mapKeyStore'[e].nAutoLockTime
  <2>1. CASE e = d
    <3>1. mapKeyStore'[e].nTimerId = new /\ mapKeyStore'[e].nAutoLockTime = now + n
      BY <1>1, <2>1 DEF new
    <3>2. mapTimerById'[new].tExpiryAt = now + n
      BY <1>6 DEF timer
    <3> QED
      BY <1>9, <3>1, <3>2
  <2>2. CASE e # d
    <3>1. e \in DOMAIN mapKeyStore /\ mapKeyStore'[e] = mapKeyStore[e]
      BY <1>1, <2>2
    <3>2. mapKeyStore[e].nTimerId # new
      <4>1. mapKeyStore[e].nTimerId =< nTimerIdAlloc
        BY <3>1 DEF TimersTyped
      <4> QED
        BY <1>2, <4>1 DEF new
    <3>3. mapKeyStore[e].nTimerId \in DOMAIN mapTimerById' =>
             /\ mapKeyStore[e].nTimerId \in DOMAIN mapTimerById
             /\ mapTimerById'[mapKeyStore[e].nTimerId] = mapTimerById[mapKeyStore[e].nTimerId]
      BY <1>5, <1>6, <3>2
    <3> QED
      BY <3>1, <3>3 DEF Timed
  <2> QED
    BY <2>1, <2>2
<1>11. ASSUME NEW i \in DOMAIN vWorkQueue, vWorkQueue[i] \in DOMAIN mapTimerById'
       PROVE  mapTimerById'[vWorkQueue[i]].tExpiryAt =< now
  <2>1. vWorkQueue[i] \in 1 .. nTimerIdAlloc
    BY DEF TimersTyped
  <2>2. vWorkQueue[i] \in DOMAIN mapTimerById /\ mapTimerById'[vWorkQueue[i]] = mapTimerById[vWorkQueue[i]]
    BY <1>5, <1>6, <1>7, <1>11, <2>1
  <2> QED
    BY <2>2 DEF Timed
<1> QED
  BY <1>3, <1>8, <1>10, <1>11 DEF Timed

-------------------------------------------------------------------------------
(* The steps                                                               *)

\* Where a thread goes, and what it knows there.
LEMMA ThreadAt ==
    ASSUME KeysTyped, NEW t \in Threads
    PROVE  /\ thread[t] \in Places
           /\ \A p \in Places : Goes(t, p) => thread' \in [Threads -> Places]
BY DEF KeysTyped, Goes

\* The call of unlockkey and removekey.
LEMMA UnlockStep ==
    ASSUME WalletInv, NEW t \in Threads, Unlock(t)
    PROVE  WalletInv'
<1> DEFINE d == thread[t].dest
<1>1. /\ thread[t] \in Places /\ d \in Dests /\ thread[t].nTimeout \in Nat
      /\ Idle \in Places /\ [at |-> "remove", dest |-> d] \in Places
  BY ThreadAt, PlaceFields, Zenon DEF WalletInv, Unlock
<1>2. dbWallet' = dbWallet /\ UNCHANGED <<worker, now>>
  BY DEF Unlock, bounds
<1>3. thread' \in [Threads -> Places]
  <2>1. Goes(t, Idle) \/ Goes(t, [at |-> "remove", dest |-> d])
    BY DEF Unlock
  <2> HIDE DEF d
  <2> QED
    BY <1>1, <2>1, ThreadAt DEF WalletInv
<1>4. CASE CanUnlock(d, thread[t].passphrase)
  <2>1. Unlocks(d, thread[t].nTimeout) /\ d \in DOMAIN mapKeyStore
    BY <1>4 DEF Unlock, CanUnlock, HavePrivKey, HaveKey
  <2> DEFINE n == thread[t].nTimeout
  <2> HIDE DEF d, n
  <2>2. n \in Nat /\ Unlocks(d, n)
    BY <1>1, <2>1 DEF n
  <2>3. PICK k \in KeyStores :
              /\ mapKeyStore' = [mapKeyStore EXCEPT ![d] = k] /\ k.key = mapKeyStore[d].key
              /\ \/ /\ k.nTimerId = mapKeyStore[d].nTimerId /\ UNCHANGED timers
                    /\ k.nAutoLockTime = mapKeyStore[d].nAutoLockTime
                 \/ /\ SetTimer(d, n) /\ k.nTimerId = nTimerIdAlloc + 1
                    /\ k.nAutoLockTime = now + n
    BY <2>1, <2>2, UnlocksFacts DEF WalletInv
  <2>4. MemoryIsSaved' /\ mapKeyStore' \in [DOMAIN mapKeyStore' -> KeyStores]
    BY <1>2, <2>1, <2>3, SameKeySaved, Zenon DEF WalletInv
  <2>5. TimersTyped' /\ Timed'
    <3>1. CASE UNCHANGED timers /\ k.nTimerId = mapKeyStore[d].nTimerId
               /\ k.nAutoLockTime = mapKeyStore[d].nAutoLockTime
      <4>1. UNCHANGED <<worker, now, nTimerIdAlloc>>
        BY <1>2, <3>1 DEF timers
      <4> QED
        BY <2>1, <2>3, <3>1, <4>1, TimerKept, Zenon DEF WalletInv
    <3>2. CASE SetTimer(d, n) /\ k.nTimerId = nTimerIdAlloc + 1 /\ k.nAutoLockTime = now + n
      BY <1>1, <1>2, <2>1, <2>2, <2>3, <3>2, TimerGiven, Zenon DEF WalletInv
    <3> QED
      BY <2>3, <3>1, <3>2
  <2> QED
    BY <1>2, <1>3, <2>4, <2>5 DEF WalletInv, KeysTyped
<1>5. CASE ~ CanUnlock(d, thread[t].passphrase)
  <2>1. UNCHANGED <<mapKeyStore, timers>>
    BY <1>5 DEF Unlock
  <2> QED
    BY <1>2, <1>3, <2>1 DEF WalletInv, KeysTyped, MemoryIsSaved, TimersTyped, Timed, timers, worker
<1> QED
  BY <1>4, <1>5

\* The call of lockkey and the first of removekey.
LEMMA LockStep ==
    ASSUME WalletInv, NEW t \in Threads, Lock(t)
    PROVE  WalletInv'
<1> DEFINE d == thread[t].dest
<1>1. /\ thread[t] \in Places /\ Idle \in Places
      /\ thread[t].at = "removeLock" => [thread[t] EXCEPT !.at = "removeUnlock"] \in Places
  BY ThreadAt, PlaceFields, Zenon DEF WalletInv
<1>2. dbWallet' = dbWallet /\ UNCHANGED <<worker, now>>
  BY DEF Lock, bounds
<1>3. thread' \in [Threads -> Places]
  <2>1. CASE thread[t].at = "lock"
    BY <1>1, <2>1, ThreadAt DEF Lock, WalletInv
  <2>2. CASE thread[t].at = "removeLock"
    <3> DEFINE p == [thread[t] EXCEPT !.at = "removeUnlock"]
    <3>1. Goes(t, p) /\ p \in Places
      BY <1>1, <2>2 DEF Lock
    <3> HIDE DEF p
    <3> QED
      BY <3>1, ThreadAt DEF WalletInv
  <2> QED
    BY <2>1, <2>2 DEF Lock
<1>4. CASE HavePrivKey(d)
  <2> DEFINE k == LockKey(mapKeyStore[d])
             id == mapKeyStore[d].nTimerId
  <2>1. /\ d \in DOMAIN mapKeyStore /\ CancelTimer(id)
        /\ mapKeyStore' = [mapKeyStore EXCEPT ![d] = k]
    BY <1>4 DEF Lock, HavePrivKey, HaveKey
  <2>2. k \in KeyStores /\ k.key = mapKeyStore[d].key /\ k.nTimerId = NoTimer
    <3>1. mapKeyStore[d] \in KeyStores
      BY <2>1 DEF WalletInv, KeysTyped
    <3> QED
      BY <3>1, LockedKey DEF NoTimer
  <2> HIDE DEF d, k, id
  <2>3. MemoryIsSaved' /\ mapKeyStore' \in [DOMAIN mapKeyStore' -> KeyStores]
    BY <1>2, <2>1, <2>2, SameKeySaved, Zenon DEF WalletInv
  <2>4. UNCHANGED <<worker, now, nTimerIdAlloc>>
    BY <1>2, <2>1 DEF CancelTimer
  <2>5. TimersTyped' /\ Timed'
    BY <2>1, <2>2, <2>4, TimerKept, Zenon DEF WalletInv
  <2> QED
    BY <1>2, <1>3, <2>3, <2>5 DEF WalletInv, KeysTyped
<1>5. CASE ~ HavePrivKey(d)
  <2>1. UNCHANGED <<mapKeyStore, timers>>
    BY <1>5 DEF Lock
  <2> QED
    BY <1>2, <1>3, <2>1 DEF WalletInv, KeysTyped, MemoryIsSaved, TimersTyped, Timed, timers, worker
<1> QED
  BY <1>4, <1>5

\* Where the timers are left alone it is enough that no key gets one.
LEMMA TimersUntouched ==
    ASSUME TimersTyped, Timed, UNCHANGED <<timers, worker, now>>,
           \A e \in DOMAIN mapKeyStore' :
              \/ mapKeyStore'[e].nTimerId = NoTimer
              \/ /\ e \in DOMAIN mapKeyStore
                 /\ mapKeyStore'[e].nTimerId = mapKeyStore[e].nTimerId
                 /\ mapKeyStore'[e].nAutoLockTime = mapKeyStore[e].nAutoLockTime
    PROVE  TimersTyped' /\ Timed'
<1>1. UNCHANGED <<mapTimerById, mapTimerByExpiry, nTimerIdAlloc, vWorkQueue, fnCallback, now>>
  BY DEF timers, worker
<1>2. NoTimer \notin DOMAIN mapTimerById /\ NoTimer =< nTimerIdAlloc
  BY DEF TimersTyped, NoTimer
<1>3. TimersTyped'
  <2>1. \A e \in DOMAIN mapKeyStore' : mapKeyStore'[e].nTimerId =< nTimerIdAlloc
    BY <1>2 DEF TimersTyped
  <2> QED
    BY <1>1, <2>1 DEF TimersTyped
<1> QED
  BY <1>1, <1>2, <1>3 DEF Timed

\* The removal of a key; its timer stays.
LEMMA RemoveStep ==
    ASSUME WalletInv, NEW t \in Threads, RemoveKey(t)
    PROVE  WalletInv'
<1> DEFINE d == thread[t].dest
<1>1. UNCHANGED <<timers, worker, now>> /\ thread' \in [Threads -> Places]
  BY ThreadAt, PlaceFields, Zenon DEF RemoveKey, WalletInv
<1>2. \/ UNCHANGED <<mapKeyStore, dbWallet>>
      \/ mapKeyStore' = WithoutKey(mapKeyStore, d) /\ dbWallet' = WithoutKey(dbWallet, d)
  BY DEF RemoveKey
<1>3. /\ mapKeyStore \in [DOMAIN mapKeyStore -> KeyStores] /\ dbWallet \in [DOMAIN dbWallet -> Keys]
      /\ MemoryIsSaved /\ TimersTyped /\ Timed
  BY DEF WalletInv, KeysTyped
<1> HIDE DEF d, Keys, KeyStores
<1>4. CASE UNCHANGED <<mapKeyStore, dbWallet>>
  <2>1. TimersTyped' /\ Timed'
    BY <1>1, <1>3, <1>4, TimersUntouched
  <2> QED
    BY <1>1, <1>3, <1>4, <2>1 DEF WalletInv, KeysTyped, MemoryIsSaved
<1>5. CASE mapKeyStore' = WithoutKey(mapKeyStore, d) /\ dbWallet' = WithoutKey(dbWallet, d)
  <2>1. /\ DOMAIN mapKeyStore' = DOMAIN mapKeyStore \ {d} /\ DOMAIN dbWallet' = DOMAIN dbWallet \ {d}
        /\ \A e \in DOMAIN mapKeyStore' : mapKeyStore'[e] = mapKeyStore[e]
        /\ \A e \in DOMAIN dbWallet' : dbWallet'[e] = dbWallet[e]
        /\ mapKeyStore' \in [DOMAIN mapKeyStore' -> KeyStores]
        /\ dbWallet' \in [DOMAIN dbWallet' -> Keys]
    BY <1>3, <1>5 DEF WithoutKey, Restrict
  <2>2. TimersTyped' /\ Timed'
    BY <1>1, <1>3, <2>1, TimersUntouched
  <2>3. MemoryIsSaved'
    BY <1>3, <2>1 DEF MemoryIsSaved
  <2> QED
    BY <1>1, <2>1, <2>2, <2>3 DEF WalletInv, KeysTyped
<1> QED
  BY <1>2, <1>4, <1>5

\* The import of a key: in memory and in the database, or in neither.
LEMMA AddStep ==
    ASSUME WalletInv, NEW t \in Threads, AddKey(t)
    PROVE  WalletInv'
<1> DEFINE d == thread[t].dest
           saved == thread[t].key
           k == CWalletKeyStore(saved)
<1>1. UNCHANGED <<timers, worker, now>> /\ thread' \in [Threads -> Places]
  BY ThreadAt, PlaceFields, Zenon DEF AddKey, WalletInv
<1>2. saved \in Keys /\ k \in KeyStores /\ k.key = saved /\ k.nTimerId = NoTimer
  BY ThreadAt, PlaceFields, NewKey, Zenon DEF AddKey, WalletInv, NoTimer
<1>3. \/ UNCHANGED <<mapKeyStore, dbWallet>>
      \/ mapKeyStore' = WithKey(mapKeyStore, d, k) /\ dbWallet' = WithKey(dbWallet, d, saved)
      \/ mapKeyStore' = WithoutKey(mapKeyStore, d) /\ dbWallet' = dbWallet
  BY DEF AddKey, AddedKeys
<1>4. /\ mapKeyStore \in [DOMAIN mapKeyStore -> KeyStores] /\ dbWallet \in [DOMAIN dbWallet -> Keys]
      /\ MemoryIsSaved /\ TimersTyped /\ Timed
  BY DEF WalletInv, KeysTyped
<1> HIDE DEF d, saved, k, Keys, KeyStores
<1>5. CASE UNCHANGED <<mapKeyStore, dbWallet>>
  <2>1. TimersTyped' /\ Timed'
    BY <1>1, <1>4, <1>5, TimersUntouched
  <2> QED
    BY <1>1, <1>4, <1>5, <2>1 DEF WalletInv, KeysTyped, MemoryIsSaved
<1>6. CASE mapKeyStore' = WithKey(mapKeyStore, d, k) /\ dbWallet' = WithKey(dbWallet, d, saved)
  <2>1. /\ DOMAIN mapKeyStore' = DOMAIN mapKeyStore \cup {d}
        /\ DOMAIN dbWallet' = DOMAIN dbWallet \cup {d}
        /\ \A e \in DOMAIN mapKeyStore' : mapKeyStore'[e] = IF e = d THEN k ELSE mapKeyStore[e]
        /\ \A e \in DOMAIN dbWallet' : dbWallet'[e] = IF e = d THEN saved ELSE dbWallet[e]
    BY <1>6 DEF WithKey
  <2>2. /\ mapKeyStore' \in [DOMAIN mapKeyStore' -> KeyStores]
        /\ dbWallet' \in [DOMAIN dbWallet' -> Keys]
    BY <1>2, <1>4, <1>6 DEF WithKey
  <2>3. TimersTyped' /\ Timed'
    BY <1>1, <1>2, <1>4, <2>1, TimersUntouched
  <2>4. MemoryIsSaved'
    BY <1>2, <1>4, <2>1 DEF MemoryIsSaved
  <2> QED
    BY <1>1, <2>2, <2>3, <2>4 DEF WalletInv, KeysTyped
<1>7. CASE mapKeyStore' = WithoutKey(mapKeyStore, d) /\ dbWallet' = dbWallet
  <2>1. /\ DOMAIN mapKeyStore' = DOMAIN mapKeyStore \ {d}
        /\ \A e \in DOMAIN mapKeyStore' : mapKeyStore'[e] = mapKeyStore[e]
        /\ mapKeyStore' \in [DOMAIN mapKeyStore' -> KeyStores]
    BY <1>4, <1>7 DEF WithoutKey, Restrict
  <2>2. TimersTyped' /\ Timed'
    BY <1>1, <1>4, <2>1, TimersUntouched
  <2>3. MemoryIsSaved'
    BY <1>4, <1>7, <2>1 DEF MemoryIsSaved
  <2> QED
    BY <1>1, <1>4, <1>7, <2>1, <2>2, <2>3 DEF WalletInv, KeysTyped
<1> QED
  BY <1>3, <1>5, <1>6, <1>7

\* The change of a passphrase, in the database first.
LEMMA EncryptStep ==
    ASSUME WalletInv, NEW t \in Threads, Encrypt(t)
    PROVE  WalletInv'
<1> DEFINE d == thread[t].dest
           p == thread[t].passphrase
           k == EncryptKey(mapKeyStore[d], p)
<1>1. UNCHANGED <<timers, worker, now>> /\ thread' \in [Threads -> Places] /\ p \in Passphrases
  BY ThreadAt, PlaceFields, Zenon DEF Encrypt, WalletInv
<1>2. \/ UNCHANGED <<mapKeyStore, dbWallet>>
      \/ /\ d \in DOMAIN mapKeyStore /\ mapKeyStore' = [mapKeyStore EXCEPT ![d] = k]
         /\ dbWallet' = [dbWallet EXCEPT ![d] = Saved(PRIVATE_KEY, p)]
  BY DEF Encrypt, HavePrivKey, HaveKey
<1>3. /\ mapKeyStore \in [DOMAIN mapKeyStore -> KeyStores] /\ dbWallet \in [DOMAIN dbWallet -> Keys]
      /\ MemoryIsSaved /\ TimersTyped /\ Timed
  BY DEF WalletInv, KeysTyped
<1>4. CASE UNCHANGED <<mapKeyStore, dbWallet>>
  <2>1. TimersTyped' /\ Timed'
    BY <1>1, <1>3, <1>4, TimersUntouched
  <2> QED
    BY <1>1, <1>3, <1>4, <2>1 DEF WalletInv, KeysTyped, MemoryIsSaved
<1>5. CASE /\ d \in DOMAIN mapKeyStore /\ mapKeyStore' = [mapKeyStore EXCEPT ![d] = k]
           /\ dbWallet' = [dbWallet EXCEPT ![d] = Saved(PRIVATE_KEY, p)]
  <2> DEFINE saved == Saved(PRIVATE_KEY, p)
  <2>1. /\ k \in KeyStores /\ k.key = saved /\ saved \in Keys
        /\ k.nTimerId = mapKeyStore[d].nTimerId
        /\ k.nAutoLockTime = mapKeyStore[d].nAutoLockTime
    <3>1. saved \in Keys /\ mapKeyStore[d] \in KeyStores
      BY <1>1, <1>3, <1>5 DEF Keys
    <3> QED
      BY <1>1, <3>1, EncryptedKey
  <2> HIDE DEF d, p, k, saved, Keys, KeyStores
  <2>2. /\ DOMAIN mapKeyStore' = DOMAIN mapKeyStore
        /\ mapKeyStore' \in [DOMAIN mapKeyStore' -> KeyStores]
        /\ mapKeyStore'[d] = k
        /\ \A e \in DOMAIN mapKeyStore : e # d => mapKeyStore'[e] = mapKeyStore[e]
    BY <1>3, <1>5, <2>1
  <2>3. dbWallet' = [dbWallet EXCEPT ![d] = saved] /\ d \in DOMAIN dbWallet
    BY <1>3, <1>5 DEF saved, MemoryIsSaved
  <2>4. /\ DOMAIN dbWallet' = DOMAIN dbWallet /\ dbWallet' \in [DOMAIN dbWallet' -> Keys]
        /\ dbWallet'[d] = saved /\ \A e \in DOMAIN dbWallet : e # d => dbWallet'[e] = dbWallet[e]
    BY <1>3, <2>1, <2>3
  <2>5. TimersTyped' /\ Timed'
    BY <1>1, <1>3, <2>1, <2>2, TimersUntouched
  <2>6. MemoryIsSaved'
    BY <1>3, <2>1, <2>2, <2>4 DEF MemoryIsSaved
  <2> QED
    BY <1>1, <2>2, <2>4, <2>5, <2>6 DEF WalletInv, KeysTyped
<1> QED
  BY <1>2, <1>4, <1>5

\* The renewal of a key's timer after a signature.
LEMMA UpdateStep ==
    ASSUME WalletInv, NEW t \in Threads, UpdateAutoLock(t)
    PROVE  WalletInv'
<1> DEFINE d == thread[t].dest
           n == mapKeyStore[d].nAutoDelayTime
<1>1. /\ dbWallet' = dbWallet /\ UNCHANGED <<worker, now>> /\ thread' \in [Threads -> Places]
      /\ d \in Dests
  BY ThreadAt, PlaceFields, Zenon DEF UpdateAutoLock, WalletInv, bounds
<1>2. \/ UNCHANGED <<mapKeyStore, timers>>
      \/ /\ d \in DOMAIN mapKeyStore /\ RenewTimer(d, mapKeyStore[d].nTimerId, n)
         /\ mapKeyStore' = [mapKeyStore EXCEPT ![d].nAutoLockTime = now + n,
                                               ![d].nTimerId = nTimerIdAlloc + 1]
  BY Zenon DEF UpdateAutoLock, HavePrivKey, HaveKey, RenewTimer
<1>3. CASE UNCHANGED <<mapKeyStore, timers>>
  BY <1>1, <1>3 DEF WalletInv, KeysTyped, MemoryIsSaved, TimersTyped, Timed, timers, worker
<1>4. CASE /\ d \in DOMAIN mapKeyStore /\ RenewTimer(d, mapKeyStore[d].nTimerId, n)
           /\ mapKeyStore' = [mapKeyStore EXCEPT ![d].nAutoLockTime = now + n,
                                                 ![d].nTimerId = nTimerIdAlloc + 1]
  <2> DEFINE k == WithTimer(mapKeyStore[d], now + n, nTimerIdAlloc + 1)
             id == mapKeyStore[d].nTimerId
  <2>1. /\ mapKeyStore \in [DOMAIN mapKeyStore -> KeyStores] /\ mapKeyStore[d] \in KeyStores
        /\ now \in Nat /\ nTimerIdAlloc \in Nat
    BY <1>4 DEF WalletInv, KeysTyped, TimersTyped
  <2>2. mapKeyStore' = [mapKeyStore EXCEPT ![d] = k]
    BY <1>4, <2>1, Zenon DEF WithTimer
  <2>3. n \in Nat
    BY <2>1 DEF KeyStores
  <2>4. now + n \in Int /\ nTimerIdAlloc + 1 \in Nat
    BY <2>1, <2>3
  <2>5. /\ k \in KeyStores /\ k.key = mapKeyStore[d].key
        /\ k.nTimerId = nTimerIdAlloc + 1 /\ k.nAutoLockTime = now + n
    <3> HIDE DEF KeyStores
    <3> QED
      BY ZenonT(30), <2>1, <2>4, TimedKey
  <2>6. RenewTimer(d, id, n) /\ d \in DOMAIN mapKeyStore
    BY <1>4
  <2> HIDE DEF d, n, k, id, KeyStores
  <2>7. MemoryIsSaved' /\ mapKeyStore' \in [DOMAIN mapKeyStore' -> KeyStores]
    BY <1>1, <2>2, <2>5, <2>6, SameKeySaved, Zenon DEF WalletInv
  <2>8. TimersTyped' /\ Timed'
    BY <1>1, <2>2, <2>3, <2>5, <2>6, TimerGiven, Zenon DEF WalletInv
  <2> QED
    BY <1>1, <2>7, <2>8 DEF WalletInv, KeysTyped
<1> QED
  BY <1>2, <1>3, <1>4

\* A request leaves the wallet alone.
LEMMA RequestStep ==
    ASSUME WalletInv, NEW t \in Threads, Request(t)
    PROVE  WalletInv'
<1>1. UNCHANGED <<mapKeyStore, dbWallet, timers, worker, now>>
  BY Zenon DEF Request, RPCUnlockKey, RPCLockKey, RPCRemoveKey, RPCImportKey, RPCEncryptKey, Sign, bounds
<1>2. \E p \in Places : Goes(t, p)
  <2>1. PICK d \in Dests :
           \/ \E p \in Passphrases, n \in Timeouts : RPCUnlockKey(t, d, p, n)
           \/ RPCLockKey(t, d)
           \/ \E p \in Passphrases : RPCRemoveKey(t, d, p)
           \/ \E saved \in Keys : RPCImportKey(t, d, saved)
           \/ \E p, old \in Passphrases : RPCEncryptKey(t, d, p, old)
           \/ Sign(t, d)
    BY DEF Request
  <2> HIDE DEF Keys
  <2>2. ASSUME NEW p \in Passphrases, NEW n \in Timeouts, RPCUnlockKey(t, d, p, n)
        PROVE  \E q \in Places : Goes(t, q)
    <3>1. [at |-> "unlock", dest |-> d, passphrase |-> p, nTimeout |-> n] \in Places
      BY TimesAssumption DEF Places
    <3> QED
      BY <2>2, <3>1 DEF RPCUnlockKey
  <2>3. CASE RPCLockKey(t, d) \/ Sign(t, d)
    <3>1. [at |-> "lock", dest |-> d] \in Places /\ [at |-> "update", dest |-> d] \in Places
      BY DEF Places
    <3> QED
      BY <2>3, <3>1 DEF RPCLockKey, Sign
  <2>4. ASSUME NEW p \in Passphrases, RPCRemoveKey(t, d, p)
        PROVE  \E q \in Places : Goes(t, q)
    <3>1. /\ [at |-> "removeLock", dest |-> d, passphrase |-> p,
              nTimeout |-> UNLOCKKEY_RELEASE_DEFAULT_TIME] \in Places
          /\ [at |-> "remove", dest |-> d] \in Places
      BY TimesAssumption DEF Places
    <3> QED
      BY <2>4, <3>1 DEF RPCRemoveKey
  <2>5. ASSUME NEW saved \in Keys, RPCImportKey(t, d, saved)
        PROVE  \E q \in Places : Goes(t, q)
    <3>1. [at |-> "add", dest |-> d, key |-> saved] \in Places
      BY DEF Places
    <3> QED
      BY <2>5, <3>1 DEF RPCImportKey
  <2>6. ASSUME NEW p \in Passphrases, NEW old \in Passphrases, RPCEncryptKey(t, d, p, old)
        PROVE  \E q \in Places : Goes(t, q)
    <3>1. [at |-> "encrypt", dest |-> d, passphrase |-> p, old |-> old] \in Places
      BY DEF Places
    <3> QED
      BY <2>6, <3>1 DEF RPCEncryptKey
  <2> QED
    BY <2>1, <2>2, <2>3, <2>4, <2>5, <2>6
<1>3. thread' \in [Threads -> Places]
  BY <1>2, ThreadAt DEF WalletInv
<1> QED
  BY <1>1, <1>3 DEF WalletInv, KeysTyped, MemoryIsSaved, TimersTyped, Timed, timers, worker

\* The timer thread queues the timers that have expired.
LEMMA QueueStep ==
    ASSUME WalletInv, TimerQueue
    PROVE  WalletInv'
<1>1. /\ UNCHANGED <<mapKeyStore, dbWallet, mapTimerById, nTimerIdAlloc, fnCallback, thread, now>>
      /\ mapTimerByExpiry' = mapTimerByExpiry \ Due
  BY DEF TimerQueue, bounds
<1>2. vWorkQueue' \in [1 .. Cardinality(Due) -> Due]
  BY DEF TimerQueue
<1>3. /\ nTimerIdAlloc \in Nat /\ Due \subseteq mapTimerByExpiry
      /\ mapTimerByExpiry \subseteq DOMAIN mapTimerById
      /\ DOMAIN mapTimerById \subseteq 1 .. nTimerIdAlloc
      /\ \A id \in Due : mapTimerById[id].tExpiryAt =< now
  BY DEF WalletInv, TimersTyped, Due
<1>4. Cardinality(Due) \in Nat
  <2>1. IsFiniteSet(1 .. nTimerIdAlloc)
    BY <1>3, FS_Interval
  <2>2. IsFiniteSet(Due)
    BY <1>3, <2>1, FS_Subset
  <2> QED
    BY <2>2, FS_CardinalityType
<1> HIDE DEF Due
<1>5. vWorkQueue' \in Seq(1 .. nTimerIdAlloc)
  <2> DEFINE c == Cardinality(Due)
  <2>1. vWorkQueue' \in [1 .. c -> 1 .. nTimerIdAlloc] /\ c \in Nat
    BY <1>2, <1>3, <1>4
  <2> HIDE DEF c
  <2> QED
    BY <2>1, SeqDef, Zenon
<1>6. \A i \in DOMAIN vWorkQueue' : mapTimerById[vWorkQueue'[i]].tExpiryAt =< now
  BY <1>2, <1>3
<1>7. TimersTyped'
  <2>1. \A i \in DOMAIN vWorkQueue' : vWorkQueue'[i] \notin mapTimerByExpiry'
    BY <1>1, <1>2
  <2> QED
    BY <1>1, <1>3, <1>5, <2>1 DEF WalletInv, TimersTyped
<1>8. Timed'
  BY <1>1, <1>6 DEF WalletInv, Timed
<1> QED
  BY <1>1, <1>7, <1>8 DEF WalletInv, KeysTyped, MemoryIsSaved

\* The timer thread takes the next one from the queue.
LEMMA TakeStep ==
    ASSUME WalletInv, TimerTake
    PROVE  WalletInv'
<1> DEFINE id == Head(vWorkQueue)
           Timer == [dest : Dests, tExpiryAt : Nat]
<1>1. /\ UNCHANGED <<mapKeyStore, dbWallet, mapTimerByExpiry, nTimerIdAlloc, thread, now>>
      /\ mapTimerById' = WithoutKey(mapTimerById, id) /\ vWorkQueue' = Tail(vWorkQueue)
      /\ vWorkQueue # <<>> /\ fnCallback = NoCallback
      /\ fnCallback' = IF id \in DOMAIN mapTimerById
                       THEN [id |-> id, dest |-> mapTimerById[id].dest] ELSE NoCallback
  BY DEF TimerTake, bounds
<1>2. /\ mapTimerById \in [DOMAIN mapTimerById -> Timer] /\ TimersTyped /\ Timed
      /\ vWorkQueue \in Seq(1 .. nTimerIdAlloc)
  BY DEF WalletInv, TimersTyped
<1>3. /\ id = vWorkQueue[1] /\ 1 \in DOMAIN vWorkQueue /\ id \in 1 .. nTimerIdAlloc
      /\ vWorkQueue' \in Seq(1 .. nTimerIdAlloc)
      /\ \A i \in DOMAIN vWorkQueue' : i + 1 \in DOMAIN vWorkQueue /\ vWorkQueue'[i] = vWorkQueue[i + 1]
  <2> DEFINE S == 1 .. nTimerIdAlloc
  <2>1. vWorkQueue \in Seq(S) /\ vWorkQueue # <<>> /\ vWorkQueue' = Tail(vWorkQueue)
    BY <1>1, <1>2
  <2> HIDE DEF S
  <2>2. /\ Len(vWorkQueue) \in Nat /\ Len(vWorkQueue) > 0
        /\ DOMAIN vWorkQueue = 1 .. Len(vWorkQueue)
    BY <2>1
  <2>3. /\ vWorkQueue' \in Seq(S) /\ Len(vWorkQueue') = Len(vWorkQueue) - 1
        /\ \A i \in 1 .. Len(vWorkQueue) - 1 : vWorkQueue'[i] = vWorkQueue[i + 1]
    BY <2>1, <2>2, HeadTailProperties
  <2>4. DOMAIN vWorkQueue' = 1 .. Len(vWorkQueue) - 1
    BY <2>3
  <2>5. id = vWorkQueue[1] /\ id \in S /\ 1 \in DOMAIN vWorkQueue
    BY <2>1, <2>2
  <2> QED
    BY <2>2, <2>3, <2>4, <2>5 DEF S
<1> HIDE DEF id
<1>4. /\ DOMAIN mapTimerById' = DOMAIN mapTimerById \ {id}
      /\ \A x \in DOMAIN mapTimerById' : mapTimerById'[x] = mapTimerById[x]
      /\ mapTimerById' \in [DOMAIN mapTimerById' -> Timer]
  BY <1>1, <1>2 DEF WithoutKey, Restrict
<1>5. TimersTyped'
  <2>1. mapTimerByExpiry \subseteq DOMAIN mapTimerById'
    BY <1>2, <1>3, <1>4 DEF TimersTyped
  <2>2. \A i \in DOMAIN vWorkQueue' : vWorkQueue'[i] \notin mapTimerByExpiry
    BY <1>2, <1>3 DEF TimersTyped
  <2>3. fnCallback' = NoCallback \/ fnCallback' \in [id : 1 .. nTimerIdAlloc, dest : Dests]
    BY <1>1, <1>2, <1>3
  <2>4. DOMAIN mapTimerById' \subseteq 1 .. nTimerIdAlloc
    BY <1>2, <1>4 DEF TimersTyped
  <2> QED
    BY <1>1, <1>2, <1>3, <1>4, <2>1, <2>2, <2>3, <2>4 DEF TimersTyped
<1>6. ASSUME NEW e \in DOMAIN mapKeyStore
      PROVE  /\ mapKeyStore[e].nTimerId \in DOMAIN mapTimerById' =>
                   mapTimerById'[mapKeyStore[e].nTimerId].tExpiryAt = mapKeyStore[e].nAutoLockTime
             /\ mapKeyStore[e].nTimerId = fnCallback'.id /\ fnCallback'.id # NoTimer =>
                   now >= mapKeyStore[e].nAutoLockTime
  <2>1. mapKeyStore[e].nTimerId \in DOMAIN mapTimerById =>
           mapTimerById[mapKeyStore[e].nTimerId].tExpiryAt = mapKeyStore[e].nAutoLockTime
    BY <1>2 DEF Timed
  <2>2. CASE id \in DOMAIN mapTimerById
    <3>1. fnCallback'.id = id /\ mapTimerById[id].tExpiryAt =< now
      BY <1>1, <1>2, <1>3, <2>2 DEF Timed
    <3>2. now \in Nat /\ mapTimerById[id].tExpiryAt \in Nat
      BY <1>2, <2>2 DEF TimersTyped
    <3> QED
      BY <1>4, <2>1, <2>2, <3>1, <3>2
  <2>3. CASE id \notin DOMAIN mapTimerById
    <3>1. fnCallback'.id = NoTimer
      BY <1>1, <2>3 DEF NoCallback
    <3> QED
      BY <1>4, <2>1, <3>1
  <2> QED
    BY <2>2, <2>3
<1>7. \A i \in DOMAIN vWorkQueue' :
         vWorkQueue'[i] \in DOMAIN mapTimerById' => mapTimerById'[vWorkQueue'[i]].tExpiryAt =< now
  BY <1>2, <1>3, <1>4 DEF Timed
<1>8. Timed'
  BY <1>1, <1>6, <1>7 DEF Timed
<1> QED
  BY <1>1, <1>5, <1>8 DEF WalletInv, KeysTyped, MemoryIsSaved

\* The callback of a timer locks its key, if it is still the timer of the key.
LEMMA AutoLockStep ==
    ASSUME WalletInv, AutoLock
    PROVE  WalletInv'
<1> DEFINE d == fnCallback.dest
           k == CWalletKeyStore(mapKeyStore[d].key)
<1>1. /\ UNCHANGED <<dbWallet, timers, vWorkQueue, thread, now>> /\ fnCallback' = NoCallback
      /\ \/ UNCHANGED mapKeyStore
         \/ d \in DOMAIN mapKeyStore /\ mapKeyStore' = [mapKeyStore EXCEPT ![d] = k]
  BY Zenon DEF AutoLock, HavePrivKey, HaveKey, bounds
<1>2. \A e \in DOMAIN mapKeyStore' :
         \/ mapKeyStore'[e].nTimerId = NoTimer
         \/ /\ e \in DOMAIN mapKeyStore
            /\ mapKeyStore'[e].nTimerId = mapKeyStore[e].nTimerId
            /\ mapKeyStore'[e].nAutoLockTime = mapKeyStore[e].nAutoLockTime
  BY <1>1 DEF CWalletKeyStore
<1>3. MemoryIsSaved' /\ mapKeyStore' \in [DOMAIN mapKeyStore' -> KeyStores]
  <2>1. CASE UNCHANGED mapKeyStore
    BY <1>1, <2>1 DEF WalletInv, MemoryIsSaved, KeysTyped
  <2>2. CASE d \in DOMAIN mapKeyStore /\ mapKeyStore' = [mapKeyStore EXCEPT ![d] = k]
    <3>1. mapKeyStore[d].key \in Keys
      BY <2>2 DEF WalletInv, KeysTyped, KeyStores
    <3>2. k \in KeyStores /\ k.key = mapKeyStore[d].key
      BY <3>1, NewKey, Zenon
    <3> HIDE DEF k, d
    <3> QED
      BY <1>1, <2>2, <3>2, SameKeySaved, Zenon DEF WalletInv
  <2> QED
    BY <1>1, <2>1, <2>2
<1>4. UNCHANGED <<mapTimerById, mapTimerByExpiry, nTimerIdAlloc, vWorkQueue, now>>
  BY <1>1 DEF timers
<1>5. NoTimer \notin DOMAIN mapTimerById /\ NoTimer =< nTimerIdAlloc
  BY DEF WalletInv, TimersTyped, NoTimer
<1>6. TimersTyped'
  <2>1. \A e \in DOMAIN mapKeyStore' : mapKeyStore'[e].nTimerId =< nTimerIdAlloc
    BY <1>2, <1>5 DEF WalletInv, TimersTyped
  <2> QED
    BY <1>1, <1>4, <2>1 DEF WalletInv, TimersTyped
<1>7. Timed'
  <2>1. fnCallback'.id = NoTimer
    BY <1>1 DEF NoCallback
  <2> QED
    BY <1>2, <1>4, <1>5, <2>1 DEF WalletInv, Timed
<1> QED
  BY <1>1, <1>3, <1>6, <1>7 DEF WalletInv, KeysTyped

\* Time passes.
LEMMA TickStep ==
    ASSUME WalletInv, Tick
    PROVE  WalletInv'
<1>1. /\ UNCHANGED <<mapKeyStore, dbWallet, thread, mapTimerById, mapTimerByExpiry, nTimerIdAlloc>>
      /\ UNCHANGED <<vWorkQueue, fnCallback>> /\ now' = now + 1 /\ now \in Nat
  BY DEF Tick, timers, worker, WalletInv, TimersTyped
<1>2. TimersTyped'
  BY <1>1 DEF WalletInv, TimersTyped
<1>3. ASSUME NEW d \in DOMAIN mapKeyStore, mapKeyStore[d].nTimerId = fnCallback.id, fnCallback.id # NoTimer
      PROVE  now + 1 >= mapKeyStore[d].nAutoLockTime
  <2>1. now >= mapKeyStore[d].nAutoLockTime /\ mapKeyStore[d].nAutoLockTime \in Int
    BY <1>3 DEF WalletInv, Timed, KeysTyped, KeyStores
  <2> QED
    BY <1>1, <2>1
<1>4. ASSUME NEW i \in DOMAIN vWorkQueue, vWorkQueue[i] \in DOMAIN mapTimerById
      PROVE  mapTimerById[vWorkQueue[i]].tExpiryAt =< now + 1
  <2>1. mapTimerById[vWorkQueue[i]].tExpiryAt =< now /\ mapTimerById[vWorkQueue[i]].tExpiryAt \in Nat
    BY <1>4 DEF WalletInv, Timed, TimersTyped
  <2> QED
    BY <1>1, <2>1
<1>5. Timed'
  BY <1>1, <1>3, <1>4 DEF WalletInv, Timed
<1> QED
  BY <1>1, <1>2, <1>5 DEF WalletInv, KeysTyped, MemoryIsSaved

\* The node starts again with the keys of the database.
LEMMA RestartStep ==
    ASSUME WalletInv, Restart
    PROVE  WalletInv'
<1>1. /\ mapKeyStore' = [d \in DOMAIN dbWallet |-> CWalletKeyStore(dbWallet[d])]
      /\ dbWallet' = dbWallet /\ now' = now /\ nTimerIdAlloc' = nTimerIdAlloc
      /\ mapTimerById' = <<>> /\ mapTimerByExpiry' = {} /\ vWorkQueue' = <<>>
      /\ fnCallback' = NoCallback /\ thread' = [t \in Threads |-> Idle]
  BY DEF Restart, Empty
<1>2. \A d \in DOMAIN dbWallet : dbWallet[d] \in Keys
  BY DEF WalletInv, KeysTyped
<1>3. /\ DOMAIN mapKeyStore' = DOMAIN dbWallet
      /\ \A d \in DOMAIN dbWallet :
            /\ mapKeyStore'[d] \in KeyStores /\ mapKeyStore'[d].key = dbWallet[d]
            /\ mapKeyStore'[d].nTimerId = 0
  <2> HIDE DEF KeyStores, Keys
  <2> QED
    BY <1>1, <1>2, NewKey, Zenon
<1>4. KeysTyped'
  <2> HIDE DEF KeyStores, Keys
  <2>1. mapKeyStore' \in [DOMAIN mapKeyStore' -> KeyStores]
    BY <1>1, <1>3
  <2>2. Idle \in Places
    BY DEF Places
  <2>3. thread' \in [Threads -> Places]
    BY <1>1, <2>2
  <2> QED
    BY <1>1, <2>1, <2>3 DEF KeysTyped, WalletInv
<1>5. MemoryIsSaved'
  BY <1>1, <1>3 DEF MemoryIsSaved
<1>6. DOMAIN mapTimerById' = {} /\ DOMAIN vWorkQueue' = {} /\ fnCallback'.id = NoTimer
  BY <1>1 DEF NoCallback
<1>7. TimersTyped'
  <2>1. now \in Nat /\ nTimerIdAlloc \in Nat
    BY DEF WalletInv, TimersTyped
  <2>2. vWorkQueue' \in Seq(1 .. nTimerIdAlloc)
    BY <1>1
  <2>3. mapTimerById' \in [DOMAIN mapTimerById' -> [dest : Dests, tExpiryAt : Nat]]
    BY <1>1
  <2> QED
    BY <1>1, <1>3, <1>6, <2>1, <2>2, <2>3 DEF TimersTyped
<1>8. Timed'
  BY <1>6 DEF Timed
<1> QED
  BY <1>4, <1>5, <1>7, <1>8 DEF WalletInv

-------------------------------------------------------------------------------
(* The theorems                                                            *)

\* Every step of the wallet's threads, of the timer thread and of the clock
\* keeps the invariant.
LEMMA WalletStep ==
    ASSUME WalletInv, [Next]_vars
    PROVE  WalletInv'
<1>1. ASSUME NEW t \in Threads, Request(t) PROVE WalletInv'
  BY <1>1, RequestStep
<1>2. ASSUME NEW t \in Threads, Call(t) PROVE WalletInv'
  BY <1>2, UnlockStep, LockStep, RemoveStep, AddStep, EncryptStep, UpdateStep DEF Call
<1>3. CASE TimerProc
  BY <1>3, QueueStep, TakeStep, AutoLockStep DEF TimerProc
<1>4. CASE Tick
  BY <1>4, TickStep
<1>5. CASE Restart
  BY <1>5, RestartStep
<1>6. CASE UNCHANGED vars
  BY <1>6 DEF vars, timers, worker, bounds, WalletInv, KeysTyped, MemoryIsSaved, TimersTyped, Timed
<1> QED
  BY <1>1, <1>2, <1>3, <1>4, <1>5, <1>6 DEF Next

\* The invariant of the wallet: what CWallet and CDocker's timers keep under
\* any interleaving of requests and timers.
THEOREM WalletInvariant == Spec => []WalletInv
<1>1. Init => WalletInv
  <2> SUFFICES ASSUME Init PROVE WalletInv
    OBVIOUS
  <2>1. /\ DOMAIN mapKeyStore = {} /\ DOMAIN dbWallet = {} /\ DOMAIN mapTimerById = {}
        /\ mapKeyStore \in [{} -> KeyStores] /\ dbWallet \in [{} -> Keys]
        /\ mapTimerById \in [{} -> [dest : Dests, tExpiryAt : Nat]]
    <3> HIDE DEF KeyStores, Keys
    <3> QED
      BY DEF Init, Empty
  <2>2. Idle \in Places
    <3> HIDE DEF Keys
    <3> QED
      BY DEF Places
  <2>3. KeysTyped
    BY <2>1, <2>2 DEF Init, KeysTyped
  <2>4. TimersTyped
    BY <2>1 DEF Init, TimersTyped
  <2>5. Timed
    BY <2>1 DEF Init, Timed
  <2> QED
    BY <2>1, <2>3, <2>4, <2>5 DEF WalletInv, MemoryIsSaved
<1>2. WalletInv /\ [Next]_vars => WalletInv'
  BY WalletStep
<1> QED
  BY <1>1, <1>2, PTL DEF Spec

\* Every key in memory is saved with the same version and cipher, whatever
\* fails: what AddKey, Encrypt and RemoveKey of CWallet promise a restart.
THEOREM KeysAlwaysSaved == Spec => []MemoryIsSaved
<1>1. WalletInv => MemoryIsSaved
  BY DEF WalletInv
<1> QED
  BY <1>1, WalletInvariant, PTL

\* The timer thread never locks a key before its time, whatever callbacks of
\* earlier timers are on their way (CWallet::AutoLock).
THEOREM NeverLockedEarly == Spec => NotLockedEarly
<1> DEFINE Late == \A d \in DOMAIN mapKeyStore :
                      AutoLock /\ ~mapKeyStore[d].locked /\ mapKeyStore'[d].locked
                        => now >= mapKeyStore[d].nAutoLockTime
<1>1. WalletInv /\ [Next]_vars => [Late]_vars
  <2> SUFFICES ASSUME WalletInv, NEW d \in DOMAIN mapKeyStore, AutoLock,
                      ~mapKeyStore[d].locked, mapKeyStore'[d].locked
               PROVE  now >= mapKeyStore[d].nAutoLockTime
    OBVIOUS
  <2>1. d = fnCallback.dest /\ IsTimerOf(mapKeyStore[d], fnCallback.id)
    BY DEF AutoLock, WalletInv, KeysTyped
  <2>2. fnCallback.id # NoTimer
    BY DEF AutoLock, WalletInv, TimersTyped, NoTimer
  <2> QED
    BY <2>1, <2>2 DEF IsTimerOf, WalletInv, Timed
<1> QED
  BY <1>1, WalletInvariant, PTL DEF Spec, NotLockedEarly
===============================================================================
