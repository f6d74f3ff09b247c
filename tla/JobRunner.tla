----------------------------- MODULE JobRunner -----------------------------
(***************************************************************************)
(* lib/job and the part of app/service that drives it: when job handlers   *)
(* run.  once() takes the lock of the job's name, runs the handler and     *)
(* releases the lock whatever the handler did; a call that finds the lock  *)
(* taken returns at once.  The application awaits one call, then starts a  *)
(* timer that calls once() again and again without awaiting it.            *)
(*                                                                         *)
(* The lock map belongs to the module, not to the runner: runners made     *)
(* with one name share a lock.                                             *)
(***************************************************************************)
EXTENDS Integers

CONSTANTS Runners,  \* the job runners of the process
          Names,    \* job names
          NameOf    \* [Runners -> Names]

ASSUME NamesAssumption == NameOf \in [Runners -> Names]

VARIABLES jobLockMap,  \* the names whose lock is held
          phase,       \* per runner: how far the application has come with it
          handling     \* per runner: handler invocations in progress

vars == <<jobLockMap, phase, handling>>

Init ==
  /\ jobLockMap = [n \in Names |-> FALSE]
  /\ phase = [r \in Runners |-> "booting"]
  /\ handling = [r \in Runners |-> 0]

(* The synchronous part of once(): test and take the lock, call the handler. *)
Enter(r) ==
  /\ ~jobLockMap[NameOf[r]]
  /\ jobLockMap' = [jobLockMap EXCEPT ![NameOf[r]] = TRUE]
  /\ handling' = [handling EXCEPT ![r] = @ + 1]

(* Mutation: the test of the lock is inside the try, so finally runs. *)
SkipReleases(r) ==
  /\ jobLockMap[NameOf[r]]
  /\ jobLockMap' = [jobLockMap EXCEPT ![NameOf[r]] = FALSE]
  /\ UNCHANGED handling

(* once() finds the lock taken and returns. *)
Skip(r) ==
  /\ jobLockMap[NameOf[r]]
  /\ UNCHANGED <<jobLockMap, handling>>

(* run() has made its checks and awaits the first once(). *)
FirstOnce(r) ==
  /\ phase[r] = "booting"
  /\ phase' = [phase EXCEPT ![r] = "initial"]
  /\ Enter(r) \/ Skip(r)

(* The first once() has resolved, at once or after its handler: loop(). *)
StartLoop(r) ==
  /\ phase[r] = "initial"
  /\ handling[r] = 0
  /\ phase' = [phase EXCEPT ![r] = "polling"]
  /\ UNCHANGED <<jobLockMap, handling>>

(* The timer fires, whether or not an earlier call is still running. *)
Tick(r) ==
  /\ phase[r] = "polling"
  /\ Enter(r) \/ Skip(r)
  /\ UNCHANGED phase

(* Mutation: the lock is not released. *)
KeepLock(r) == UNCHANGED jobLockMap

Release(r) == jobLockMap' = [jobLockMap EXCEPT ![NameOf[r]] = FALSE]

(* Mutation: the end of a call is handled once more than the calls made. *)
SettleAgain(r) ==
  /\ handling' = [handling EXCEPT ![r] = @ - 1]
  /\ Release(r)
  /\ UNCHANGED phase

(* The handler resolves or rejects; finally releases the lock. *)
Settle(r) ==
  /\ handling[r] > 0
  /\ handling' = [handling EXCEPT ![r] = @ - 1]
  /\ Release(r)
  /\ UNCHANGED phase

(* stop() clears the timer if there is one; a handler in progress goes on. *)
Stop(r) ==
  /\ phase[r] = "polling"
  /\ phase' = [phase EXCEPT ![r] = "stopped"]
  /\ UNCHANGED <<jobLockMap, handling>>

(* The process exits and is started again. *)
Restart ==
  /\ jobLockMap' = [n \in Names |-> FALSE]
  /\ phase' = [r \in Runners |-> "booting"]
  /\ handling' = [r \in Runners |-> 0]

Run(r) == FirstOnce(r) \/ StartLoop(r) \/ Tick(r)

Next ==
  \/ \E r \in Runners : Run(r) \/ Settle(r) \/ Stop(r)
  \/ Restart

Spec == Init /\ [][Next]_vars

(* Timers fire, and a handler settles: a request that gets no response in  *)
(* time is aborted, and a response is assumed to have an end.              *)
Fairness ==
  \A r \in Runners : WF_vars(Run(r)) /\ WF_vars(Settle(r))

FairSpec == Spec /\ Fairness

-----------------------------------------------------------------------------
(* Properties *)

TypeOK ==
  /\ jobLockMap \in [Names -> BOOLEAN]
  /\ phase \in [Runners -> {"booting", "initial", "polling", "stopped"}]
  /\ handling \in [Runners -> Nat]

(* Two handlers of one job name never run at the same time, whether they   *)
(* come from the awaited first call, from ticks that pile up behind a slow *)
(* handler, or from two runners that share the name.                       *)
MutualExclusion ==
  \A r, s \in Runners :
    NameOf[r] = NameOf[s] /\ handling[r] > 0 /\ handling[s] > 0
      => r = s /\ handling[r] = 1

(* The lock of a name is held exactly while a handler of that name runs:   *)
(* no path out of once() leaves it behind, or all later ticks would be     *)
(* skipped in silence.                                                     *)
LockIsHeld ==
  \A n \in Names :
    jobLockMap[n] <=> \E r \in Runners : NameOf[r] = n /\ handling[r] > 0

(* While the timers of a name run, its handlers keep being called. *)
JobsKeepRunning ==
  \A n \in Names :
    []<>(\/ \E r \in Runners : NameOf[r] = n /\ handling[r] > 0
         \/ \A r \in Runners : NameOf[r] = n => phase[r] = "stopped")
=============================================================================
