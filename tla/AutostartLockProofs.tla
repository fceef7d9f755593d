------------------------- MODULE AutostartLockProofs -------------------------
(***************************************************************************)
(* Theorems about AutostartLock for every set of proxies, all times and    *)
(* any number of killed proxies.  The inductive invariant is IInv: the     *)
(* types, whom the lock file belongs to, who may hold the lock before a    *)
(* daemon listens, and what is known of the daemons that were spawned.     *)
(***************************************************************************)
EXTENDS AutostartLock, TLAPS

OneHolder == \A p, q \in Holders : p = q

(* Until a daemon listens, a file that has not outlived StaleAge keeps all *)
(* others from the lock.                                                   *)
LockInv ==
    ~overdue /\ ~Listening =>
        /\ OneHolder
        /\ Holders # {} => file # NoFile
        /\ file <= StaleAge
        /\ \A p \in Proxies : pc[p] \notin {"remove", "create"}

(* A proxy that has spawned a daemon never stands before a spawn again.    *)
SpawnedOnce ==
    \A p \in Proxies :
        /\ pc[p] = "drop" => Listening
        /\ daemon[p] # "none" =>
              \/ pc[p] \in {"wait", "drop", "dropFailed"} \cup Ended
              \/ pc[p] = "connect" /\ Listening

(* A daemon that was spawned but does not listen yet: its proxy waits for  *)
(* it, or was killed and left the file behind.                             *)
Attended(p) ==
    /\ daemon[p] = "starting" /\ file # NoFile
    /\ \A q \in Holders : q = p
    /\ \/ pc[p] = "wait" /\ due[p] <= StartTime - WinnerWait + left[p]
       \/ pc[p] = "killed"

SpawnInv ==
    ~overdue /\ ~Late =>
        /\ \A p \in Proxies : daemon[p] # "none" => Listening \/ Attended(p)
        /\ \A p, q \in Proxies : pc[q] = "spawn" => daemon[p] = "none"

IInv == TypeOK /\ LockIsFreed /\ LockInv /\ SpawnedOnce /\ SpawnInv

-----------------------------------------------------------------------------
LEMMA InitInv == Init => IInv
<1> SUFFICES ASSUME Init
             PROVE  IInv
  OBVIOUS
<1> USE TimesAssumption
    DEF Init, TypeOK, OneHolder, Holders, HoldingSteps, Steps, Ended, NoFile
<1>1. TypeOK
  <2>1. overdue \in BOOLEAN
    BY Zenon
  <2>2. file \in {NoFile} \cup 0 .. (StaleAge + 1)
    OBVIOUS
  <2>3. left \in [Proxies -> 0 .. (WinnerWait + LoserWait)]
    OBVIOUS
  <2>4. due \in [Proxies -> 0 .. StartTime] /\ kills \in 0 .. MaxKills
    OBVIOUS
  <2> QED
    BY <2>1, <2>2, <2>3, <2>4
<1>2. LockIsFreed /\ LockInv
  BY DEF LockIsFreed, LockInv
<1>3. SpawnedOnce /\ SpawnInv
  BY DEF SpawnedOnce, SpawnInv
<1> QED
  BY <1>1, <1>2, <1>3 DEF IInv

LEMMA TypeInvariant == TypeOK /\ [Next]_vars => TypeOK'
<1> SUFFICES ASSUME TypeOK, [Next]_vars
             PROVE  TypeOK'
  OBVIOUS
<1> USE TimesAssumption
    DEF TypeOK, NoFile, Go, Steps, HoldingSteps, Ended, Waiting, Less
<1>1. ASSUME NEW p \in Proxies, Start(p) \/ Connect(p) \/ Check(p)
      PROVE  TypeOK'
  BY <1>1 DEF Start, Connect, Check
<1>2. ASSUME NEW p \in Proxies, Open(p) \/ Remove(p) \/ DropLock(p)
      PROVE  TypeOK'
  BY <1>2 DEF Open, Remove, DropLock
<1>3. ASSUME NEW p \in Proxies, Stat(p) \/ Create(p)
      PROVE  TypeOK'
  BY <1>3 DEF Stat, Create, Lose
<1>4. ASSUME NEW p \in Proxies, Spawn(p)
      PROVE  TypeOK'
  BY <1>4 DEF Spawn
<1>5. ASSUME NEW p \in Proxies, Seen(p) \/ Timeout(p)
      PROVE  TypeOK'
  BY <1>5 DEF Seen, Timeout
<1>6. ASSUME NEW p \in Proxies, Kill(p)
      PROVE  TypeOK'
  BY <1>6 DEF Kill
<1>7. ASSUME NEW p \in Proxies, Bind(p)
      PROVE  TypeOK'
  BY <1>7 DEF Bind, Listening
<1>8. ASSUME Tick
      PROVE  TypeOK'
  BY <1>8 DEF Tick
<1>9. CASE UNCHANGED vars
  BY <1>9 DEF vars
<1> QED
  BY <1>1, <1>2, <1>3, <1>4, <1>5, <1>6, <1>7, <1>8, <1>9 DEF Next, Proxy

(* A file is made by a new holder, and a holder that leaves unkilled       *)
(* removes whatever file there is.                                         *)
LEMMA FreedInvariant == TypeOK /\ LockIsFreed /\ [Next]_vars => LockIsFreed'
<1> SUFFICES ASSUME TypeOK, LockIsFreed, [Next]_vars
             PROVE  LockIsFreed'
  OBVIOUS
<1> USE TimesAssumption
    DEF TypeOK, LockIsFreed, Holders, HoldingSteps, NoFile, Go, Waiting, Ended
<1>1. ASSUME NEW p \in Proxies, Start(p) \/ Connect(p) \/ Check(p)
      PROVE  LockIsFreed'
  BY <1>1 DEF Start, Connect, Check
<1>2. ASSUME NEW p \in Proxies, Open(p) \/ Create(p)
      PROVE  LockIsFreed'
  BY <1>2 DEF Open, Create, Lose
<1>3. ASSUME NEW p \in Proxies, Stat(p) \/ Remove(p)
      PROVE  LockIsFreed'
  BY <1>3 DEF Stat, Remove, Lose
<1>4. ASSUME NEW p \in Proxies, Spawn(p)
      PROVE  LockIsFreed'
  BY <1>4 DEF Spawn
<1>5. ASSUME NEW p \in Proxies, Seen(p) \/ Timeout(p)
      PROVE  LockIsFreed'
  BY <1>5 DEF Seen, Timeout
<1>6. ASSUME NEW p \in Proxies, DropLock(p)
      PROVE  LockIsFreed'
  BY <1>6 DEF DropLock
<1>7. ASSUME NEW p \in Proxies, Kill(p) \/ Bind(p)
      PROVE  LockIsFreed'
  BY <1>7 DEF Kill, Bind
<1>8. ASSUME Tick
      PROVE  LockIsFreed'
  BY <1>8 DEF Tick, Less
<1>9. CASE UNCHANGED vars
  BY <1>9 DEF vars
<1> QED
  BY <1>1, <1>2, <1>3, <1>4, <1>5, <1>6, <1>7, <1>8, <1>9 DEF Next, Proxy

LEMMA SpawnedOnceInvariant ==
    TypeOK /\ SpawnedOnce /\ [Next]_vars => SpawnedOnce' /\ (Listening => Listening')
<1> SUFFICES ASSUME TypeOK, SpawnedOnce, [Next]_vars
             PROVE  SpawnedOnce' /\ (Listening => Listening')
  OBVIOUS
<1> USE DEF TypeOK, SpawnedOnce, Listening, Go, Waiting, Ended
<1>1. ASSUME NEW p \in Proxies, Start(p) \/ Connect(p) \/ Check(p)
      PROVE  SpawnedOnce' /\ (Listening => Listening')
  BY <1>1 DEF Start, Connect, Check
<1>2. ASSUME NEW p \in Proxies, Open(p) \/ Create(p) \/ Stat(p) \/ Remove(p)
      PROVE  SpawnedOnce' /\ (Listening => Listening')
  BY <1>2 DEF Open, Create, Stat, Remove, Lose
<1>3. ASSUME NEW p \in Proxies, Spawn(p)
      PROVE  SpawnedOnce' /\ (Listening => Listening')
  BY <1>3 DEF Spawn
<1>4. ASSUME NEW p \in Proxies, Seen(p) \/ Timeout(p) \/ DropLock(p)
      PROVE  SpawnedOnce' /\ (Listening => Listening')
  BY <1>4 DEF Seen, Timeout, DropLock
<1>5. ASSUME NEW p \in Proxies, Kill(p) \/ Bind(p)
      PROVE  SpawnedOnce' /\ (Listening => Listening')
  BY <1>5 DEF Kill, Bind
<1>6. ASSUME Tick
      PROVE  SpawnedOnce' /\ (Listening => Listening')
  BY <1>6 DEF Tick
<1>7. CASE UNCHANGED vars
  BY <1>7 DEF vars
<1> QED
  BY <1>1, <1>2, <1>3, <1>4, <1>5, <1>6, <1>7 DEF Next, Proxy

(* Whoever steps in the lock: a new maker finds no file, so no holder; a   *)
(* holder that leaves takes the file with it; and a file that turns stale  *)
(* with no daemon listening is overdue.                                    *)
LEMMA LockInvariant ==
    TypeOK /\ LockInv /\ SpawnedOnce /\ [Next]_vars => LockInv'
<1> SUFFICES ASSUME TypeOK, LockInv, SpawnedOnce, [Next]_vars, ~overdue', ~Listening'
             PROVE  LockInv'
  BY DEF LockInv
<1>0. /\ ~overdue /\ ~Listening
      /\ OneHolder
      /\ Holders # {} => file # NoFile
      /\ file <= StaleAge
      /\ \A p \in Proxies : pc[p] \notin {"remove", "create"}
  <2>1. overdue => overdue'
    BY DEF TypeOK, Next, Proxy, Start, Connect, Open, Stat, Remove, Create, Check,
           Spawn, Seen, Timeout, DropLock, Kill, Bind, Tick, vars
  <2>2. Listening => Listening'
    BY SpawnedOnceInvariant
  <2> QED
    BY <2>1, <2>2 DEF LockInv
<1> USE TimesAssumption, <1>0
    DEF TypeOK, LockInv, OneHolder, Holders, HoldingSteps, NoFile, Go, Waiting, Ended
<1>1. ASSUME NEW p \in Proxies, Start(p) \/ Connect(p) \/ Check(p)
      PROVE  LockInv'
  BY <1>1 DEF Start, Connect, Check
<1>2. ASSUME NEW p \in Proxies, Open(p) \/ Create(p)
      PROVE  LockInv'
  BY <1>2 DEF Open, Create, Lose
<1>3. ASSUME NEW p \in Proxies, Stat(p) \/ Remove(p)
      PROVE  LockInv'
  BY <1>3 DEF Stat, Remove, Lose
<1>4. ASSUME NEW p \in Proxies, Spawn(p)
      PROVE  LockInv'
  BY <1>4 DEF Spawn
<1>5. ASSUME NEW p \in Proxies, Seen(p) \/ Timeout(p)
      PROVE  LockInv'
  BY <1>5 DEF Seen, Timeout
<1>6. ASSUME NEW p \in Proxies, DropLock(p)
      PROVE  LockInv'
  BY <1>6 DEF DropLock
<1>7. ASSUME NEW p \in Proxies, Kill(p) \/ Bind(p)
      PROVE  LockInv'
  BY <1>7 DEF Kill, Bind
<1>8. ASSUME Tick
      PROVE  LockInv'
  <2>1. ~(file' > StaleAge)
    BY <1>8, Zenon DEF Tick
  <2>2. pc' = pc /\ file' \in Int /\ (file # NoFile => file' # NoFile)
    BY <1>8 DEF Tick
  <2> QED
    BY <2>1, <2>2
<1>9. CASE UNCHANGED vars
  BY <1>9 DEF vars
<1> QED
  BY <1>1, <1>2, <1>3, <1>4, <1>5, <1>6, <1>7, <1>8, <1>9 DEF Next, Proxy

(* Once a daemon is late it stays so: nothing gives it more time.          *)
LEMMA LateLasts == TypeOK /\ SpawnedOnce /\ [Next]_vars => (Late => Late')
<1> SUFFICES ASSUME TypeOK, SpawnedOnce, [Next]_vars,
                    NEW p \in Proxies, daemon[p] # "none",
                    due[p] <= StartTime - WinnerWait
             PROVE  daemon'[p] # "none" /\ due'[p] <= StartTime - WinnerWait
  BY DEF Late
<1>1. CASE \E q \in Proxies : Spawn(q)
  BY <1>1 DEF Spawn, TypeOK, SpawnedOnce, Ended, Go
<1>2. CASE \E q \in Proxies : Bind(q)
  BY <1>2 DEF Bind, TypeOK
<1>3. CASE Tick
  BY <1>3, TimesAssumption DEF Tick, Less, TypeOK
<1>4. CASE UNCHANGED <<daemon, due>>
  BY <1>4
<1> QED
  BY <1>1, <1>2, <1>3, <1>4
     DEF Next, Proxy, Start, Connect, Open, Stat, Remove, Create, Check, Seen,
         Timeout, DropLock, Kill, vars

(* A holder that turns to spawn has seen no daemon listening, and nobody   *)
(* else holds the lock or has left a spawned daemon behind.                *)
LEMMA SpawnInvariant ==
    IInv /\ [Next]_vars => SpawnInv'
<1> SUFFICES ASSUME IInv, [Next]_vars, ~overdue', ~Late'
             PROVE  SpawnInv'
  BY DEF SpawnInv
<1>1. ~Late /\ ~overdue
  <2>1. overdue => overdue'
    BY DEF IInv, TypeOK, Next, Proxy, Start, Connect, Open, Stat, Remove, Create,
           Check, Spawn, Seen, Timeout, DropLock, Kill, Bind, Tick, vars
  <2> QED
    BY <2>1, LateLasts DEF IInv
<1>2. Listening => Listening'
  BY SpawnedOnceInvariant DEF IInv
<1>3. /\ \A p \in Proxies : daemon[p] # "none" => Listening \/ Attended(p)
      /\ \A p, q \in Proxies : pc[q] = "spawn" => daemon[p] = "none"
  BY <1>1 DEF IInv, SpawnInv
<1>4. ~Listening =>
          /\ \A p, q \in Holders : p = q
          /\ Holders # {} => file # NoFile
          /\ \A p \in Proxies : pc[p] \notin {"remove", "create"}
  BY <1>1 DEF IInv, LockInv, OneHolder
<1>5. TypeOK
  BY DEF IInv
<1> USE TimesAssumption, <1>1, <1>2, <1>3, <1>4, <1>5
    DEF TypeOK, Attended, Go, Waiting, Ended, Holders, HoldingSteps, NoFile
<1>6. ASSUME NEW r \in Proxies, \/ Start(r) \/ Connect(r) \/ Open(r) \/ Stat(r)
      PROVE  SpawnInv'
  BY <1>6 DEF Start, Connect, Open, Stat, Lose, SpawnInv
<1>7. ASSUME NEW r \in Proxies, Remove(r) \/ Create(r) \/ DropLock(r)
      PROVE  SpawnInv'
  BY <1>7 DEF Remove, Create, DropLock, Lose, SpawnInv
<1>8. ASSUME NEW r \in Proxies, Check(r)
      PROVE  SpawnInv'
  BY <1>8 DEF Check, SpawnInv
<1>9. ASSUME NEW r \in Proxies, Spawn(r)
      PROVE  SpawnInv'
  BY <1>9 DEF Spawn, SpawnInv, Listening
<1>10. ASSUME NEW r \in Proxies, Seen(r) \/ Timeout(r)
      PROVE  SpawnInv'
  BY <1>10 DEF Seen, Timeout, SpawnInv, Late
<1>11. ASSUME NEW r \in Proxies, Kill(r)
      PROVE  SpawnInv'
  BY <1>11 DEF Kill, SpawnInv
<1>12. ASSUME NEW r \in Proxies, Bind(r)
      PROVE  SpawnInv'
  BY <1>12 DEF Bind, SpawnInv, Listening
<1>13. ASSUME Tick
      PROVE  SpawnInv'
  BY <1>13 DEF Tick, SpawnInv, Less, Listening
<1>14. CASE UNCHANGED vars
  BY <1>14 DEF vars, SpawnInv, Listening
<1> QED
  BY <1>6, <1>7, <1>8, <1>9, <1>10, <1>11, <1>12, <1>13, <1>14 DEF Next, Proxy

LEMMA Invariant == Spec => []IInv
<1>1. IInv /\ [Next]_vars => IInv'
  BY TypeInvariant, FreedInvariant, LockInvariant, SpawnedOnceInvariant, SpawnInvariant DEF IInv
<1> QED
  BY InitInv, <1>1, PTL DEF Spec

-----------------------------------------------------------------------------
(* Types, and one daemon at most that listens: the others find the address *)
(* in use and end (run_daemon).                                            *)
THEOREM TypeCorrect == Spec => []TypeOK
<1>1. IInv => TypeOK
  BY DEF IInv
<1> QED
  BY <1>1, Invariant, PTL

(* The lock file goes with its maker, or before, on every way out, unless  *)
(* the maker is killed (LockGuard).                                        *)
THEOREM LockGoes == Spec => []LockIsFreed
<1>1. IInv => LockIsFreed
  BY DEF IInv
<1> QED
  BY <1>1, Invariant, PTL

(* Until a daemon listens the lock has one holder, unless a lock file has  *)
(* outlived StaleAge: whoever is killed and however slow a holder is, only *)
(* a stale file lets another proxy in (acquire_lock).                      *)
THEOREM LockExcludes == Spec => [](~overdue /\ ~Listening => OneHolder)
<1>1. IInv => (~overdue /\ ~Listening => OneHolder)
  BY DEF IInv, LockInv
<1> QED
  BY <1>1, Invariant, PTL

(* A second daemon is spawned only after a lock file has outlived StaleAge *)
(* with no daemon listening, or while the first daemon is late; a killed   *)
(* proxy alone is no reason (autostart_daemon).                            *)
THEOREM OneSpawn == Spec => NoSecondSpawn
<1> DEFINE A == \A p, q \in Proxies :
                   daemon[p] # "none" /\ daemon[q] = "none" /\ daemon'[q] # "none"
                       => overdue \/ Late
<1>1. IInv /\ [Next]_vars => [A]_vars
  <2> SUFFICES ASSUME IInv, Next, NEW p \in Proxies, NEW q \in Proxies,
                      daemon[p] # "none", daemon[q] = "none", daemon'[q] # "none"
               PROVE  overdue \/ Late
    OBVIOUS
  <2>1. Spawn(q)
    BY DEF Next, Proxy, Start, Connect, Open, Stat, Remove, Create, Check, Spawn,
           Seen, Timeout, DropLock, Kill, Bind, Tick, IInv, TypeOK
  <2>2. pc[q] = "spawn"
    BY <2>1 DEF Spawn
  <2> QED
    BY <2>2 DEF IInv, SpawnInv
<1> QED
  BY <1>1, Invariant, PTL DEF Spec, NoSecondSpawn
=============================================================================
