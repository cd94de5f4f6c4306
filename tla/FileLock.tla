------------------------------ MODULE FileLock ------------------------------
(***************************************************************************)
(* config/file-lock.ts: a lock that is a directory beside the file, made   *)
(* with mkdir, with the pid, the time and the token of its owner in a file *)
(* "info" in it.  A contender that finds the lock stale (its owner dead,   *)
(* or its time too long ago) removes it and tries again.                   *)
(*                                                                         *)
(* A client is one call of withFileLock(); its token is its name.  Every   *)
(* file operation is a step, and clients of several processes interleave   *)
(* between any two; fs.rm is two: it removes the info, then the directory, *)
(* and fails silently if something has been put in it between the two.     *)
(* Time is one bit, the age of what is in the directory.                   *)
(***************************************************************************)
EXTENDS Integers, FiniteSets

CONSTANTS
    Client,      \* the calls of withFileLock
    Process,     \* the processes
    Pid,         \* the process each call is made in
    retries,     \* attempts of a call
    MaxCrashes,  \* bound on the processes that die
    None         \* no directory, no info

ASSUME FileLockAssumption ==
    /\ Pid \in [Client -> Process]
    /\ retries \in Nat
    /\ MaxCrashes \in Nat
    /\ None \notin Client

VARIABLES
    dir,       \* the call that has made the directory, None if there is none
    info,      \* the token in its info file, None if there is no such file
    old,       \* the directory is older than staleMs
    alive,     \* the processes that have not died
    pc,        \* where each call stands
    attempt,   \* the attempts each call has made
    seen,      \* history: the directory and the token each call has decided upon
    mishaps    \* history: see below

fileVars == <<dir, info, old>>
vars == <<fileVars, alive, pc, attempt, seen, mishaps>>

Init ==
    /\ dir = None
    /\ info = None
    /\ old = FALSE
    /\ alive = Process
    /\ pc = [c \in Client |-> "trying"]
    /\ attempt = [c \in Client |-> 0]
    /\ seen = [c \in Client |-> <<None, None>>]
    /\ mishaps = {}

(***************************************************************************)
(* Mishaps, which the exclusion of the lock does not survive:              *)
(*   slow     a lock came of age while the call that made it was alive     *)
(*   blind    what was removed was not what had been looked at             *)
(***************************************************************************)

(* The calls that have made the directory and have yet to give it up.      *)
Owning == {"made", "holding", "releasing", "removing", "removing2"}

Goto(c, here, there) ==
    /\ pc[c] = here
    /\ pc' = [pc EXCEPT ![c] = there]

Look(c) == seen' = [seen EXCEPT ![c] = <<dir, info>>]

(***************************************************************************)
(* tryAcquireLock                                                          *)
(***************************************************************************)
Mkdir(c) ==
    /\ attempt[c] < retries
    /\ attempt' = [attempt EXCEPT ![c] = @ + 1]
    /\ dir = None
    /\ Goto(c, "trying", "made")
    /\ dir' = c
    /\ info' = None
    /\ old' = FALSE
    /\ UNCHANGED <<alive, seen, mishaps>>

(* EEXIST.                                                                 *)
MkdirExists(c) ==
    /\ attempt[c] < retries
    /\ attempt' = [attempt EXCEPT ![c] = @ + 1]
    /\ dir # None
    /\ Goto(c, "trying", "reading")
    /\ UNCHANGED <<fileVars, alive, seen, mishaps>>

(* The last attempt has failed: acquireLock throws.                        *)
GiveUp(c) ==
    /\ attempt[c] = retries
    /\ Goto(c, "trying", "failed")
    /\ UNCHANGED <<fileVars, alive, attempt, seen, mishaps>>

(* Bun.write makes the directory again if it has been removed.             *)
WriteInfo(c) ==
    /\ Goto(c, "made", "holding")
    /\ dir' = IF dir = None THEN c ELSE dir
    /\ info' = c
    /\ old' = FALSE
    /\ UNCHANGED <<alive, attempt, seen, mishaps>>

(* The info cannot be written: the error is thrown, the directory is left. *)
WriteInfoFails(c) ==
    /\ Goto(c, "made", "failed")
    /\ UNCHANGED <<fileVars, alive, attempt, seen, mishaps>>

(***************************************************************************)
(* isLockStale: the info is read, and if there is none the age of the      *)
(* directory is looked at.                                                 *)
(***************************************************************************)
Stale == Pid[info] \notin alive \/ old

(* Mutant of ReadInfo: a directory without info is taken for stale.        *)
ReadInfoNoneIsStale(c) ==
    /\ pc[c] = "reading"
    /\ Look(c)
    /\ pc' = [pc EXCEPT ![c] = IF info = None \/ Stale THEN "reaping" ELSE "trying"]
    /\ UNCHANGED <<fileVars, alive, attempt, mishaps>>

ReadInfo(c) ==
    /\ pc[c] = "reading"
    /\ Look(c)
    /\ pc' = [pc EXCEPT ![c] = IF info = None THEN "statting"
                               ELSE IF Stale THEN "reaping" ELSE "trying"]
    /\ UNCHANGED <<fileVars, alive, attempt, mishaps>>

StatDir(c) ==
    /\ pc[c] = "statting"
    /\ Look(c)
    /\ pc' = [pc EXCEPT ![c] = IF dir # None /\ old THEN "reaping" ELSE "trying"]
    /\ UNCHANGED <<fileVars, alive, attempt, mishaps>>

(***************************************************************************)
(* fs.rm, by a reaper or by the owner.                                     *)
(***************************************************************************)
Blind(c) == mishaps' = mishaps \cup {m \in {"blind"} : dir # None /\ <<dir, info>> # seen[c]}

(* The info is removed, which makes the directory young again.             *)
Unlink(c) ==
    /\ \/ dir # None /\ Goto(c, "reaping", "reaping2")
       \/ dir # None /\ Goto(c, "removing", "removing2")
    /\ Blind(c)
    /\ info' = None
    /\ old' = (old /\ info = None)
    /\ seen' = [seen EXCEPT ![c] = <<dir, None>>]
    /\ UNCHANGED <<dir, alive, attempt>>

(* There is nothing to remove: the error is ignored.                       *)
UnlinkFails(c) ==
    /\ dir = None
    /\ Goto(c, "reaping", "trying") \/ Goto(c, "removing", "done")
    /\ UNCHANGED <<fileVars, alive, attempt, seen, mishaps>>

Rmdir(c) ==
    /\ Goto(c, "reaping2", "trying") \/ Goto(c, "removing2", "done")
    /\ IF info = None
       THEN /\ dir' = None
            /\ old' = FALSE
            /\ Blind(c)
       ELSE UNCHANGED <<dir, old, mishaps>>
    /\ UNCHANGED <<info, alive, attempt, seen>>

(***************************************************************************)
(* The body of the call ends, or throws; releaseLock compares the token.   *)
(***************************************************************************)
Leave(c) ==
    /\ Goto(c, "holding", "releasing")
    /\ UNCHANGED <<fileVars, alive, attempt, seen, mishaps>>

(* Mutant of ReadToken: the token is not compared.                         *)
ReadNoToken(c) ==
    /\ pc[c] = "releasing"
    /\ Look(c)
    /\ pc' = [pc EXCEPT ![c] = "removing"]
    /\ UNCHANGED <<fileVars, alive, attempt, mishaps>>

(* Mutant of ReadToken: the comparison is the wrong way round.             *)
ReadWrongToken(c) ==
    /\ pc[c] = "releasing"
    /\ Look(c)
    /\ pc' = [pc EXCEPT ![c] = IF info # c THEN "removing" ELSE "done"]
    /\ UNCHANGED <<fileVars, alive, attempt, mishaps>>

ReadToken(c) ==
    /\ pc[c] = "releasing"
    /\ Look(c)
    /\ pc' = [pc EXCEPT ![c] = IF info = c THEN "removing" ELSE "done"]
    /\ UNCHANGED <<fileVars, alive, attempt, mishaps>>

(***************************************************************************)
(* The environment.                                                        *)
(***************************************************************************)
(* staleMs go by.                                                          *)
Age ==
    /\ dir # None
    /\ ~old
    /\ old' = TRUE
    /\ mishaps' = mishaps \cup {m \in {"slow"} : pc[dir] \in Owning}
    /\ UNCHANGED <<dir, info, alive, pc, attempt, seen>>

Crash(p) ==
    /\ p \in alive
    /\ Cardinality(Process \ alive) < MaxCrashes
    /\ alive' = alive \ {p}
    /\ pc' = [c \in Client |-> IF Pid[c] = p /\ pc[c] \notin {"done", "failed"}
                               THEN "dead" ELSE pc[c]]
    /\ UNCHANGED <<fileVars, attempt, seen, mishaps>>

Step(c) ==
    \/ Mkdir(c) \/ MkdirExists(c) \/ GiveUp(c) \/ WriteInfo(c) \/ WriteInfoFails(c)
    \/ ReadInfo(c) \/ StatDir(c) \/ Unlink(c) \/ UnlinkFails(c) \/ Rmdir(c)
    \/ Leave(c) \/ ReadToken(c)

Next ==
    \/ \E c \in Client : Step(c)
    \/ Age
    \/ \E p \in Process : Crash(p)

Spec == Init /\ [][Next]_vars

-----------------------------------------------------------------------------
Places == Owning \cup {"trying", "reading", "statting", "reaping", "reaping2",
                       "done", "failed", "dead"}

(* The types of the variables.                                             *)
TypeOK ==
    /\ dir \in Client \cup {None}
    /\ info \in Client \cup {None}
    /\ old \in BOOLEAN
    /\ alive \subseteq Process
    /\ pc \in [Client -> Places]
    /\ attempt \in [Client -> 0..retries]
    /\ seen \in [Client -> (Client \cup {None}) \X (Client \cup {None})]
    /\ mishaps \subseteq {"slow", "blind"}

(* Two calls are never in their bodies at once, unless a holder took       *)
(* longer than staleMs or a lock was removed that is not the one looked    *)
(* at: the death of an owner, a failed write, and the removal of what they *)
(* leave do not break the exclusion.                                       *)
Exclusive ==
    mishaps = {} => \A c, d \in Client : pc[c] = "holding" /\ pc[d] = "holding" => c = d

(* A call that holds the lock finds its own token in it.                   *)
HolderIsNamed ==
    mishaps = {} => \A c \in Client : pc[c] = "holding" => dir = c /\ info = c

(* The types, the exclusion, and the name in the lock it rests on.         *)
LockInv == TypeOK /\ Exclusive /\ HolderIsNamed

(* A release does not remove the lock of another, even if its own was      *)
(* taken from it because it was slow (file-lock.ts:91), but for the moment *)
(* between its look and the removal.                                       *)
ReleaseSparesOthers ==
    [][\A c \in Client :
         pc[c] = "removing" /\ pc'[c] = "removing2" /\ info # c => "blind" \in mishaps']_vars

(* When all calls are over, none of which died or could not write its      *)
(* info, the lock is free.                                                 *)
NothingLeft ==
    mishaps = {} /\ (\A c \in Client : pc[c] = "done") => dir = None

-----------------------------------------------------------------------------
(* The same exclusion without the exception for a removal of what was not  *)
(* looked at; file-lock.ts:58 guards against one way to wipe the directory *)
(* of another contender, and the code has others.  See the README.         *)
ExclusiveUnlessSlow ==
    "slow" \notin mishaps =>
        \A c, d \in Client : pc[c] = "holding" /\ pc[d] = "holding" => c = d
=============================================================================
