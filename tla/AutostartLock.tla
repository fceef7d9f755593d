---------------------------- MODULE AutostartLock ----------------------------
(***************************************************************************)
(* How the proxies of several agents start one daemon between them         *)
(* (proxy.rs): a proxy that cannot connect takes a lock file, spawns the   *)
(* daemon and waits for it; the others wait without the lock.  A lock file *)
(* older than ten seconds is taken to be left behind and is removed.  The  *)
(* ten seconds of the winner's wait start only after the file was made, a  *)
(* connection was tried and the daemon was spawned, so its file may grow   *)
(* stale while it still waits.                                             *)
(*                                                                         *)
(* A tick is five seconds: StaleAge and WinnerWait are 2, LoserWait is 3.  *)
(* Every step of a proxy may take any time: the clock waits for none.      *)
(***************************************************************************)
EXTENDS Integers

CONSTANTS Proxies,
          StaleAge,     \* acquire_lock: a file older than this is stale
          WinnerWait,   \* autostart_daemon: wait_for_daemon with the lock
          LoserWait,    \* and without it
          StartTime,    \* longest time a daemon takes to bind its address
          MaxKills      \* bound of the model: proxies killed by the user

ASSUME TimesAssumption ==
    /\ StaleAge \in Nat /\ WinnerWait \in Nat /\ LoserWait \in Nat
    /\ StartTime \in Nat /\ MaxKills \in Nat

VARIABLES
    pc,         \* where each proxy stands
    left,       \* time left of its wait
    file,       \* age of the lock file, NoFile when there is none
    daemon,     \* the daemon each proxy spawned
    due,        \* time left until it must bind, when it did
    kills,
    overdue     \* history: a lock file grew stale before a daemon listened

vars == <<pc, left, file, daemon, due, kills, overdue>>

NoFile == -1
Waiting == {"wait", "lose"}
Ended == {"connected", "failed", "killed"}
HoldingSteps == {"check", "spawn", "wait", "drop", "dropFailed"}
Steps == {"idle", "connect", "open", "stat", "remove", "create"} \cup HoldingSteps
            \cup {"lose"} \cup Ended

Holders == {p \in Proxies : pc[p] \in HoldingSteps}

Listening == \E p \in Proxies : daemon[p] = "listening"

Go(p, step) == pc' = [pc EXCEPT ![p] = step]

-----------------------------------------------------------------------------
Init ==
    /\ pc = [p \in Proxies |-> "idle"]
    /\ left = [p \in Proxies |-> 0]
    /\ file = NoFile
    /\ daemon = [p \in Proxies |-> "none"]
    /\ due = [p \in Proxies |-> 0]
    /\ kills = 0
    /\ overdue = FALSE

(* An MCP client starts its proxy.                                         *)
Start(p) ==
    /\ pc[p] = "idle"
    /\ Go(p, "connect")
    /\ UNCHANGED <<left, file, daemon, due, kills, overdue>>

(* connect_with_retry; a later attempt sees what the first ones saw or a   *)
(* daemon that listens.                                                    *)
Connect(p) ==
    /\ pc[p] = "connect"
    /\ Go(p, IF Listening THEN "connected" ELSE "open")
    /\ UNCHANGED <<left, file, daemon, due, kills, overdue>>

(* acquire_lock, one system call after the other.                          *)
Open(p) ==
    /\ pc[p] = "open"
    /\ IF file = NoFile THEN file' = 0 /\ Go(p, "check")
       ELSE Go(p, "stat") /\ UNCHANGED file
    /\ UNCHANGED <<left, daemon, due, kills, overdue>>

(* Mutant: a loser does not wait.                                          *)
LoseAtOnce(p) ==
    /\ Go(p, "failed")
    /\ UNCHANGED left

Lose(p) ==
    /\ Go(p, "lose")
    /\ left' = [left EXCEPT ![p] = LoserWait]

Stat(p) ==
    /\ pc[p] = "stat"
    /\ IF file # NoFile /\ file > StaleAge
       THEN Go(p, "remove") /\ UNCHANGED left
       ELSE Lose(p)
    /\ UNCHANGED <<file, daemon, due, kills, overdue>>

Remove(p) ==
    /\ pc[p] = "remove"
    /\ file' = NoFile
    /\ Go(p, "create")
    /\ UNCHANGED <<left, daemon, due, kills, overdue>>

Create(p) ==
    /\ pc[p] = "create"
    /\ IF file = NoFile
       THEN file' = 0 /\ Go(p, "check") /\ UNCHANGED left
       ELSE Lose(p) /\ UNCHANGED file
    /\ UNCHANGED <<daemon, due, kills, overdue>>

(* Mutant: the winner spawns without looking once more.                    *)
CheckNothing(p) ==
    /\ pc[p] = "check"
    /\ Go(p, "spawn")
    /\ UNCHANGED <<left, file, daemon, due, kills, overdue>>

(* autostart_daemon with the lock: look once more, spawn, wait.            *)
Check(p) ==
    /\ pc[p] = "check"
    /\ Go(p, IF Listening THEN "drop" ELSE "spawn")
    /\ UNCHANGED <<left, file, daemon, due, kills, overdue>>

Spawn(p) ==
    /\ pc[p] = "spawn"
    /\ daemon' = [daemon EXCEPT ![p] = "starting"]
    /\ due' = [due EXCEPT ![p] = StartTime]
    /\ Go(p, "wait")
    /\ left' = [left EXCEPT ![p] = WinnerWait]
    /\ UNCHANGED <<file, kills, overdue>>

(* wait_for_daemon.                                                        *)
Seen(p) ==
    /\ pc[p] \in Waiting /\ Listening
    /\ Go(p, IF pc[p] = "wait" THEN "drop" ELSE "connect")
    /\ left' = [left EXCEPT ![p] = 0]
    /\ UNCHANGED <<file, daemon, due, kills, overdue>>

(* Mutant: an error return forgets the guard.                              *)
TimeoutKeepingLock(p) ==
    /\ pc[p] \in Waiting /\ left[p] = 0 /\ ~Listening
    /\ Go(p, "failed")
    /\ UNCHANGED <<left, file, daemon, due, kills, overdue>>

Timeout(p) ==
    /\ pc[p] \in Waiting /\ left[p] = 0 /\ ~Listening
    /\ Go(p, IF pc[p] = "wait" THEN "dropFailed" ELSE "failed")
    /\ UNCHANGED <<left, file, daemon, due, kills, overdue>>

(* Drop of the guard removes the file, whoever made it.                    *)
DropLock(p) ==
    /\ pc[p] \in {"drop", "dropFailed"}
    /\ file' = NoFile
    /\ Go(p, IF pc[p] = "drop" THEN "connect" ELSE "failed")
    /\ UNCHANGED <<left, daemon, due, kills, overdue>>

(* A proxy is killed with its MCP client: no guard is dropped.             *)
Kill(p) ==
    /\ kills < MaxKills
    /\ pc[p] \notin Ended
    /\ Go(p, "killed")
    /\ kills' = kills + 1
    /\ left' = [left EXCEPT ![p] = 0]
    /\ UNCHANGED <<file, daemon, due, overdue>>

(* run_daemon binds the address, or finds it in use and ends.              *)
Bind(p) ==
    /\ daemon[p] = "starting"
    /\ daemon' = [daemon EXCEPT ![p] = IF Listening THEN "ended" ELSE "listening"]
    /\ UNCHANGED <<pc, left, file, due, kills, overdue>>

Less(t) == IF t > 0 THEN t - 1 ELSE 0

(* Time passes whatever the proxies do; only a daemon binds in time.       *)
Tick ==
    /\ \A p \in Proxies : daemon[p] = "starting" => due[p] > 0
    /\ left' = [p \in Proxies |-> Less(left[p])]
    /\ due' = [p \in Proxies |-> IF daemon[p] = "starting" THEN Less(due[p]) ELSE due[p]]
    /\ file' = IF file = NoFile \/ file > StaleAge THEN file ELSE file + 1
    /\ overdue' = (overdue \/ (file' > StaleAge /\ ~Listening))
    /\ UNCHANGED <<pc, daemon, kills>>

Proxy(p) ==
    \/ Connect(p) \/ Open(p) \/ Stat(p) \/ Remove(p) \/ Create(p)
    \/ Check(p) \/ Spawn(p) \/ Seen(p) \/ Timeout(p) \/ DropLock(p)

Next ==
    \/ \E p \in Proxies : Start(p) \/ Proxy(p) \/ Kill(p) \/ Bind(p)
    \/ Tick

Spec == Init /\ [][Next]_vars

(* Processes run and the clock ticks.  Nobody has to start a proxy.        *)
FairSpec ==
    /\ Spec
    /\ WF_vars(Tick)
    /\ \A p \in Proxies : WF_vars(Proxy(p)) /\ WF_vars(Bind(p))

-----------------------------------------------------------------------------
TypeOK ==
    /\ pc \in [Proxies -> Steps]
    /\ left \in [Proxies -> 0 .. (WinnerWait + LoserWait)]
    /\ file \in {NoFile} \cup 0 .. (StaleAge + 1)
    /\ daemon \in [Proxies -> {"none", "starting", "listening", "ended"}]
    /\ due \in [Proxies -> 0 .. StartTime]
    /\ kills \in 0 .. MaxKills
    /\ overdue \in BOOLEAN
    /\ \A p, q \in Proxies : daemon[p] = "listening" /\ daemon[q] = "listening"
                               => p = q

(* The lock file goes with its maker, or before, on every way out, unless  *)
(* the maker is killed (LockGuard).                                        *)
LockIsFreed == file # NoFile /\ kills = 0 => Holders # {}

(* A daemon that has not listened within the wait of the proxy that        *)
(* spawned it.                                                             *)
Late == \E p \in Proxies : daemon[p] # "none" /\ due[p] <= StartTime - WinnerWait

(* A second daemon is spawned only after a lock file has outlived StaleAge *)
(* with no daemon listening, or while the first daemon is late; a killed   *)
(* proxy alone is no reason (autostart_daemon).                            *)
NoSecondSpawn ==
    [][\A p, q \in Proxies :
          daemon[p] # "none" /\ daemon[q] = "none" /\ daemon'[q] # "none"
              => overdue \/ Late]_vars

(* Every proxy ends, connected or failed when its waits are over; losers   *)
(* and winner alike are connected, whoever else is killed, unless a lock   *)
(* file has outlived StaleAge with no daemon listening or the daemon is    *)
(* late (autostart_daemon, connect_with_retry).                            *)
ProxiesConnect ==
    \A p \in Proxies :
        /\ pc[p] = "connect" ~> pc[p] \in Ended
        /\ pc[p] = "connect" ~>
              pc[p] \in {"connected", "killed"} \/ overdue \/ Late
=============================================================================
