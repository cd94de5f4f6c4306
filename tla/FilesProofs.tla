----------------------------- MODULE FilesProofs -----------------------------
(***************************************************************************)
(* The files two processes or two starts of one may disagree about: the    *)
(* proofs about FileLock, for any number of calls, processes and attempts, *)
(* and about SessionPersistence, for any number of entries, rewrites,      *)
(* failures and deaths.                                                    *)
(***************************************************************************)
EXTENDS FileLock, SessionPersistence, SequenceFacts, TLAPS

(***************************************************************************)
(* The strengthening.  A directory is known by the call that has made it,  *)
(* and a call makes one only once; what a reaper has looked at is an       *)
(* orphan, so it cannot be mistaken for a lock that is held later.         *)
(***************************************************************************)

(* An info file is in a directory.                                         *)
InfoInDir == info # None => dir # None

(* The process of a call that is not over is alive.                        *)
CallersLive ==
    \A c \in Client : pc[c] \notin {"done", "failed", "dead"} => Pid[c] \in alive

(* A call that is about to remove its lock has seen its token in it.       *)
RemoverSawToken == \A c \in Client : pc[c] = "removing" => seen[c][2] = c

(* An owner's directory is its own, young, and named as far as it got.     *)
OwnerHasDir ==
    \A c \in Client : pc[c] \in Owning =>
        /\ dir = c
        /\ ~old
        /\ info = IF pc[c] \in {"made", "removing2"} THEN None ELSE c

Orphaned(c) == c \in Client /\ pc[c] \in {"failed", "dead"}

(* A directory belongs to an owner or is left by one that failed or died.  *)
DirOwnedOrOrphan ==
    dir # None => pc[dir] \in Owning \/ Orphaned(dir)

(* A reaper is after the directory of one that failed or died.             *)
ReaperSawOrphan ==
    \A c \in Client : pc[c] \in {"reaping", "reaping2"} => Orphaned(seen[c][1])

Clean == OwnerHasDir /\ DirOwnedOrOrphan /\ ReaperSawOrphan

IInv ==
    /\ TypeOK
    /\ InfoInDir
    /\ CallersLive
    /\ RemoverSawToken
    /\ mishaps = {} => Clean
-----------------------------------------------------------------------------
(* Types *)

LEMMA TypeInit == Init => TypeOK
<1> SUFFICES ASSUME Init PROVE TypeOK
  OBVIOUS
<1>1. attempt \in [Client -> 0..retries]
  BY FileLockAssumption DEF Init
<1>2. seen \in [Client -> (Client \cup {None}) \X (Client \cup {None})]
  BY DEF Init
<1>3. QED BY FileLockAssumption, <1>1, <1>2 DEF Init, TypeOK, Places, Owning

LEMMA TypeStep == TypeOK /\ [Next]_vars => TypeOK'
<1> SUFFICES ASSUME TypeOK, [Next]_vars PROVE TypeOK'
  OBVIOUS
<1> USE FileLockAssumption DEF TypeOK, Places, Owning
<1>1. ASSUME NEW c \in Client, Mkdir(c) PROVE TypeOK'
  <2>1. attempt' \in [Client -> 0..retries]
    BY <1>1 DEF Mkdir
  <2>2. pc' \in [Client -> Places]
    BY <1>1 DEF Mkdir, Goto
  <2>3. QED BY <1>1, <2>1, <2>2 DEF Mkdir
<1>2. ASSUME NEW c \in Client, MkdirExists(c) PROVE TypeOK'
  BY <1>2 DEF MkdirExists, Goto, fileVars
<1>3. ASSUME NEW c \in Client, GiveUp(c) PROVE TypeOK'
  BY <1>3 DEF GiveUp, Goto, fileVars
<1>4. ASSUME NEW c \in Client, WriteInfo(c) PROVE TypeOK'
  BY <1>4 DEF WriteInfo, Goto, fileVars
<1>5. ASSUME NEW c \in Client, WriteInfoFails(c) PROVE TypeOK'
  BY <1>5 DEF WriteInfoFails, Goto, fileVars
<1>6. ASSUME NEW c \in Client, ReadInfo(c) PROVE TypeOK'
  BY <1>6 DEF ReadInfo, Look, Stale, fileVars
<1>7. ASSUME NEW c \in Client, StatDir(c) PROVE TypeOK'
  BY <1>7 DEF StatDir, Look, fileVars
<1>8. ASSUME NEW c \in Client, Unlink(c) PROVE TypeOK'
  BY <1>8 DEF Unlink, Goto, Blind, fileVars
<1>9. ASSUME NEW c \in Client, UnlinkFails(c) PROVE TypeOK'
  BY <1>9 DEF UnlinkFails, Goto, fileVars
<1>10. ASSUME NEW c \in Client, Rmdir(c) PROVE TypeOK'
  <2>1. pc' \in [Client -> Places]
    BY <1>10 DEF Rmdir, Goto
  <2>2. mishaps' \subseteq {"slow", "blind"}
    BY <1>10 DEF Rmdir, Blind
  <2>3. QED BY <1>10, <2>1, <2>2 DEF Rmdir
<1>11. ASSUME NEW c \in Client, Leave(c) PROVE TypeOK'
  BY <1>11 DEF Leave, Goto, fileVars
<1>12. ASSUME NEW c \in Client, ReadToken(c) PROVE TypeOK'
  BY <1>12 DEF ReadToken, Look, fileVars
<1>13. CASE Age
  BY <1>13 DEF Age
<1>14. ASSUME NEW p \in Process, Crash(p) PROVE TypeOK'
  BY <1>14 DEF Crash, fileVars
<1>15. CASE UNCHANGED vars
  BY <1>15 DEF vars, fileVars
<1>16. QED BY <1>1, <1>2, <1>3, <1>4, <1>5, <1>6, <1>7, <1>8, <1>9, <1>10,
           <1>11, <1>12, <1>13, <1>14, <1>15 DEF Next, Step

(* Every variable has its type in every reachable state of file-lock.ts.   *)
THEOREM TypeCorrect == Spec => []TypeOK
<1>1. Init => TypeOK BY TypeInit
<1>2. TypeOK /\ [Next]_vars => TypeOK' BY TypeStep
<1>3. QED BY <1>1, <1>2, PTL DEF Spec

-----------------------------------------------------------------------------
(* Exclusion *)

LEMMA InvInit == Init => IInv
<1> SUFFICES ASSUME Init PROVE IInv
  OBVIOUS
<1>1. TypeOK
  BY TypeInit
<1>2. InfoInDir /\ CallersLive /\ RemoverSawToken
  BY FileLockAssumption DEF Init, InfoInDir, CallersLive, RemoverSawToken, Owning
<1>3. Clean
  BY DEF Init, Clean, OwnerHasDir, DirOwnedOrOrphan, ReaperSawOrphan, Owning
<1>4. QED BY <1>1, <1>2, <1>3 DEF IInv

(* The parts that hold whatever goes wrong.                                *)
LEMMA PlainStep ==
    ASSUME TypeOK, InfoInDir, CallersLive, RemoverSawToken, [Next]_vars
    PROVE  InfoInDir' /\ CallersLive' /\ RemoverSawToken'
<1> USE FileLockAssumption DEF TypeOK, InfoInDir, CallersLive, RemoverSawToken, Owning
<1>1. ASSUME NEW c \in Client, Mkdir(c) PROVE InfoInDir' /\ CallersLive' /\ RemoverSawToken'
  BY <1>1 DEF Mkdir, Goto, fileVars
<1>2. ASSUME NEW c \in Client, MkdirExists(c) PROVE InfoInDir' /\ CallersLive' /\ RemoverSawToken'
  BY <1>2 DEF MkdirExists, Goto, fileVars
<1>3. ASSUME NEW c \in Client, GiveUp(c) PROVE InfoInDir' /\ CallersLive' /\ RemoverSawToken'
  BY <1>3 DEF GiveUp, Goto, fileVars
<1>4. ASSUME NEW c \in Client, WriteInfo(c) PROVE InfoInDir' /\ CallersLive' /\ RemoverSawToken'
  BY <1>4 DEF WriteInfo, Goto, fileVars
<1>5. ASSUME NEW c \in Client, WriteInfoFails(c) PROVE InfoInDir' /\ CallersLive' /\ RemoverSawToken'
  BY <1>5 DEF WriteInfoFails, Goto, fileVars
<1>6. ASSUME NEW c \in Client, ReadInfo(c) PROVE InfoInDir' /\ CallersLive' /\ RemoverSawToken'
  BY <1>6 DEF ReadInfo, Look, Stale, fileVars
<1>7. ASSUME NEW c \in Client, StatDir(c) PROVE InfoInDir' /\ CallersLive' /\ RemoverSawToken'
  BY <1>7 DEF StatDir, Look, fileVars
<1>8. ASSUME NEW c \in Client, Unlink(c) PROVE InfoInDir' /\ CallersLive' /\ RemoverSawToken'
  BY <1>8 DEF Unlink, Goto, fileVars
<1>9. ASSUME NEW c \in Client, UnlinkFails(c) PROVE InfoInDir' /\ CallersLive' /\ RemoverSawToken'
  BY <1>9 DEF UnlinkFails, Goto, fileVars
<1>10. ASSUME NEW c \in Client, Rmdir(c) PROVE InfoInDir' /\ CallersLive' /\ RemoverSawToken'
  BY <1>10 DEF Rmdir, Goto, fileVars
<1>11. ASSUME NEW c \in Client, Leave(c) PROVE InfoInDir' /\ CallersLive' /\ RemoverSawToken'
  BY <1>11 DEF Leave, Goto, fileVars
<1>12. ASSUME NEW c \in Client, ReadToken(c) PROVE InfoInDir' /\ CallersLive' /\ RemoverSawToken'
  BY <1>12 DEF ReadToken, Look, fileVars
<1>13. CASE Age
  BY <1>13 DEF Age
<1>14. ASSUME NEW p \in Process, Crash(p) PROVE InfoInDir' /\ CallersLive' /\ RemoverSawToken'
  BY <1>14 DEF Crash, fileVars
<1>15. CASE UNCHANGED vars
  BY <1>15 DEF vars, fileVars
<1>16. QED BY <1>1, <1>2, <1>3, <1>4, <1>5, <1>6, <1>7, <1>8, <1>9, <1>10,
           <1>11, <1>12, <1>13, <1>14, <1>15 DEF Next, Step

(* While nothing has gone wrong, only an orphan's directory is removed by  *)
(* another than its owner.                                                 *)
LEMMA CleanStep ==
    ASSUME IInv, [Next]_vars, mishaps' = {}
    PROVE  Clean'
<1>0. mishaps = {} /\ Clean
  <2>1. mishaps \subseteq mishaps'
    BY DEF IInv, TypeOK, Next, Step, Mkdir, MkdirExists, GiveUp, WriteInfo, WriteInfoFails,
           ReadInfo, StatDir, Unlink, UnlinkFails, Rmdir, Leave, ReadToken, Age, Crash, Blind, vars
  <2>2. QED BY <2>1 DEF IInv
<1> USE FileLockAssumption, <1>0 DEF IInv, TypeOK, InfoInDir, CallersLive, RemoverSawToken, Owning,
        Clean, OwnerHasDir, DirOwnedOrOrphan, ReaperSawOrphan, Orphaned
<1>1. ASSUME NEW c \in Client, Mkdir(c) PROVE Clean'
  BY <1>1 DEF Mkdir, Goto, fileVars
<1>2. ASSUME NEW c \in Client, MkdirExists(c) PROVE Clean'
  BY <1>2 DEF MkdirExists, Goto, fileVars
<1>3. ASSUME NEW c \in Client, GiveUp(c) PROVE Clean'
  BY <1>3 DEF GiveUp, Goto, fileVars
<1>4. ASSUME NEW c \in Client, WriteInfo(c) PROVE Clean'
  BY <1>4 DEF WriteInfo, Goto, fileVars
<1>5. ASSUME NEW c \in Client, WriteInfoFails(c) PROVE Clean'
  BY <1>5 DEF WriteInfoFails, Goto, fileVars
<1>6. ASSUME NEW c \in Client, ReadInfo(c) PROVE Clean'
  BY <1>6 DEF ReadInfo, Look, Stale, fileVars
<1>7. ASSUME NEW c \in Client, StatDir(c) PROVE Clean'
  BY <1>7 DEF StatDir, Look, fileVars
<1>8. ASSUME NEW c \in Client, Unlink(c) PROVE Clean'
  BY <1>8 DEF Unlink, Goto, Blind, fileVars
<1>9. ASSUME NEW c \in Client, UnlinkFails(c) PROVE Clean'
  BY <1>9 DEF UnlinkFails, Goto, fileVars
<1>10. ASSUME NEW c \in Client, Rmdir(c) PROVE Clean'
  BY <1>10 DEF Rmdir, Goto, Blind, fileVars
<1>11. ASSUME NEW c \in Client, Leave(c) PROVE Clean'
  BY <1>11 DEF Leave, Goto, fileVars
<1>12. ASSUME NEW c \in Client, ReadToken(c) PROVE Clean'
  BY <1>12 DEF ReadToken, Look, fileVars
<1>13. CASE Age
  BY <1>13 DEF Age
<1>14. ASSUME NEW p \in Process, Crash(p) PROVE Clean'
  BY <1>14 DEF Crash, fileVars
<1>15. CASE UNCHANGED vars
  BY <1>15 DEF vars, fileVars
<1>16. QED BY <1>1, <1>2, <1>3, <1>4, <1>5, <1>6, <1>7, <1>8, <1>9, <1>10,
           <1>11, <1>12, <1>13, <1>14, <1>15 DEF Next, Step

LEMMA Invariance == Spec => []IInv
<1>1. Init => IInv BY InvInit
<1>2. IInv /\ [Next]_vars => IInv'
  <2> SUFFICES ASSUME IInv, [Next]_vars PROVE IInv'
    OBVIOUS
  <2>1. TypeOK' BY TypeStep DEF IInv
  <2>2. InfoInDir' /\ CallersLive' /\ RemoverSawToken' BY PlainStep DEF IInv
  <2>3. mishaps' = {} => Clean' BY CleanStep
  <2>4. QED BY <2>1, <2>2, <2>3 DEF IInv
<1>3. QED BY <1>1, <1>2, PTL DEF Spec

(* The exclusion withFileLock() is there for: crashes, failed writes and   *)
(* the removal of stale locks leave at most one call in its body.          *)
THEOREM AlwaysExclusive == Spec => []Exclusive
<1>1. IInv => Exclusive
  BY DEF IInv, Clean, OwnerHasDir, Exclusive, Owning
<1>2. QED BY <1>1, Invariance, PTL

(* A call in its body is named by the lock, so releaseLock will remove it. *)
THEOREM HoldersNamed == Spec => []HolderIsNamed
<1>1. IInv => HolderIsNamed
  BY DEF IInv, Clean, OwnerHasDir, HolderIsNamed, Owning
<1>2. QED BY <1>1, Invariance, PTL

(* Types, exclusion and the name in the lock together: what file-lock.ts   *)
(* guarantees its callers while they are in their bodies.                  *)
THEOREM LockHolds == Spec => []LockInv
BY TypeCorrect, AlwaysExclusive, HoldersNamed, PTL DEF LockInv

(* Calls that all end well leave the lock free.                            *)
THEOREM NothingLeftBehind == Spec => []NothingLeft
<1>1. IInv => NothingLeft
  BY FileLockAssumption DEF IInv, TypeOK, Clean, DirOwnedOrOrphan, Orphaned, NothingLeft, Owning
<1>2. QED BY <1>1, Invariance, PTL

(* A call that was too slow does not take the lock from its successor when *)
(* it releases, whatever else has gone wrong.                              *)
THEOREM ReleasesSpareOthers == Spec => ReleaseSparesOthers
<1> DEFINE Spares == \A c \in Client :
        pc[c] = "removing" /\ pc'[c] = "removing2" /\ info # c => "blind" \in mishaps'
<1>1. IInv /\ [Next]_vars => Spares
  <2> SUFFICES ASSUME IInv, [Next]_vars, NEW c \in Client,
                      pc[c] = "removing", pc'[c] = "removing2", info # c
               PROVE  "blind" \in mishaps'
    OBVIOUS
  <2>1. Unlink(c)
    BY DEF IInv, TypeOK, Next, Step, Mkdir, MkdirExists, GiveUp, WriteInfo, WriteInfoFails, ReadInfo,
           StatDir, Unlink, UnlinkFails, Rmdir, Leave, ReadToken, Age, Crash, Goto, vars
  <2>2. seen[c][2] = c
    BY DEF IInv, RemoverSawToken
  <2>3. dir # None /\ <<dir, info>> # seen[c]
    BY <2>1, <2>2 DEF Unlink
  <2>4. QED BY <2>1, <2>3 DEF Unlink, Blind
<1>2. QED BY <1>1, Invariance, PTL DEF Spec, ReleaseSparesOthers

-----------------------------------------------------------------------------
(***************************************************************************)
(* The session file.  A file that begins with the header can be read, and  *)
(* one that a rewrite has written is read as it is.                        *)
(***************************************************************************)
Kept == Header..MaxEntries
Headed(file) == file # <<>> /\ file[1] = Header
Whole(file) == file \in Seq(Kept) /\ Headed(file)

(* Nothing has been lost that was on disk.                                 *)
Unharmed == losses \cap {"overtaken", "buried", "glued"} = {}

(* The session file is there whenever an entry may be appended to it, and  *)
(* away between the two renames of the fallback.                           *)
FilePlaced ==
    Unharmed =>
        /\ (/\ up /\ ~persistError /\ step \notin {"place", "promote", "rollback"}
            /\ flushed \/ writer # "none" \/ "close" \in ToSet(chain))
           => Headed(primary)
        /\ step \in {"promote", "rollback"} => primary = NoFile
        /\ step = "discard" => Headed(primary)

(* What the disk has taken is in memory and in the file that is to come.   *)
SavedKept ==
    Unharmed =>
        /\ saved \subseteq Recoverable
        /\ up => saved \subseteq ToSet(entries)
        /\ Snapshotted => saved \subseteq ToSet(temp)

(* A rewrite that has yet to read the entries.                             *)
Awaited ==
    \E i \in DOMAIN chain :
        chain[i] # "close" /\ (i > 1 \/ step \in {"idle", "closing", "snapshot"})

(* What is wanted on disk is there, on its way, or waits for a rewrite.    *)
WantedWritten ==
    up /\ ~persistError /\ Wanted(entries, assistants)
        => flushed \/ Awaited \/ Snapshotted \/ step = "discard"

(* When no rewrite is awaited, the one that has read the entries has them  *)
(* all, and a session that counts as written is.                           *)
FileFollows ==
    up /\ losses = {} /\ ~persistError /\ ~Awaited =>
        /\ Snapshotted => temp = entries
        /\ ~Snapshotted /\ (flushed \/ step = "discard") => Load(primary) = entries

-----------------------------------------------------------------------------
(* Lemmas about the lines of a file *)

LEMMA LinesAre ==
    /\ MaxEntries \in Nat /\ Header = 0 /\ 0 \in Kept /\ Kept \subseteq Lines
    /\ Torn \in Lines /\ Garbled \in Lines /\ Torn \notin Kept /\ Garbled \notin Kept
    /\ Torn # Header /\ Garbled # Header
    /\ \A line \in Lines : line \in Kept <=> line >= Header
    /\ \A e \in 1..MaxEntries : e \in Kept /\ e # Header /\ e # Torn /\ e \in Lines
    /\ Kept \ {Header} = 1..MaxEntries
BY PersistenceAssumption DEF Kept, Lines, Header, Torn, Garbled

LEMMA NoFileIs == NoFile \in Seq(Lines) /\ Len(NoFile) = 2 /\ ~Headed(NoFile) /\ NoFile # <<>>
<1>1. NoFile \in Seq(Lines) /\ Len(NoFile) = 2 /\ NoFile[1] = Garbled /\ NoFile # <<>>
  BY LinesAre DEF NoFile
<1>2. QED BY <1>1, LinesAre DEF Headed

LEMMA HeadedIs ==
    ASSUME NEW file, Headed(file)
    PROVE  file # NoFile /\ file # <<>>
BY NoFileIs DEF Headed

(* What can be read of a file is what is kept of its lines.                *)
LEMMA LoadIs ==
    ASSUME NEW file \in Seq(Lines), Headed(file)
    PROVE  Load(file) = Among(file, Kept)
<1>1. file # NoFile /\ file # <<>> /\ Head(file) = Header
  BY HeadedIs DEF Headed
<1>2. {i \in DOMAIN file : file[i] >= Header} = {i \in DOMAIN file : file[i] \in Kept}
  <2>1. \A i \in DOMAIN file : file[i] \in Lines
    OBVIOUS
  <2>2. QED BY <2>1, LinesAre
<1>3. QED BY <1>1, <1>2 DEF Load, Among

LEMMA LoadNone ==
    ASSUME NEW file \in Seq(Lines), ~Headed(file)
    PROVE  Load(file) = <<>>
<1>1. CASE file = <<>>
  BY <1>1 DEF Load
<1>2. CASE file # <<>>
  <2>1. Head(file) = file[1]
    BY <1>2
  <2>2. QED BY <1>2, <2>1 DEF Load, Headed
<1>3. QED BY <1>1, <1>2

LEMMA WholeType ==
    ASSUME NEW file, Whole(file)
    PROVE  file \in Seq(Lines) /\ file \in Seq(Kept) /\ Headed(file) /\ Len(file) \in Nat \ {0}
<1>1. file \in Seq(Kept) /\ Headed(file) /\ file # <<>>
  BY DEF Whole, Headed
<1>2. Len(file) \in Nat \ {0}
  BY <1>1
<1>3. file \in Seq(Lines)
  BY <1>1, LinesAre
<1>4. QED BY <1>1, <1>2, <1>3

LEMMA LoadWhole ==
    ASSUME NEW file, Whole(file)
    PROVE  Load(file) = file
<1>1. file \in Seq(Lines) /\ file \in Seq(Kept) /\ Headed(file)
  BY WholeType
<1>2. Load(file) = Among(file, Kept)
  BY <1>1, LoadIs
<1>3. \A k \in 1..Len(file) : file[k] \in Kept
  BY <1>1
<1>4. QED BY <1>1, <1>2, <1>3, AmongAll

(* A line more.                                                            *)
LEMMA LoadLonger ==
    ASSUME NEW file \in Seq(Lines), Headed(file), NEW line \in Lines
    PROVE  /\ Append(file, line) \in Seq(Lines) /\ Headed(Append(file, line))
           /\ line \in Kept => Load(Append(file, line)) = Append(Load(file), line)
           /\ line \notin Kept => Load(Append(file, line)) = Load(file)
<1> DEFINE g == Append(file, line)
<1>1. g \in Seq(Lines) /\ g # <<>> /\ g[1] = file[1]
  BY DEF Headed
<1>2. Headed(g)
  BY <1>1 DEF Headed
<1>3. Load(g) = Among(g, Kept) /\ Load(file) = Among(file, Kept)
  BY <1>1, <1>2, LoadIs
<1>4. Among(g, Kept) = IF line \in Kept THEN Append(Among(file, Kept), line)
                       ELSE Among(file, Kept)
  BY AmongAppend
<1>5. QED BY <1>1, <1>2, <1>3, <1>4

(* The last line gone.                                                     *)
LEMMA FrontIs ==
    ASSUME NEW S, NEW s \in Seq(S), s # <<>>
    PROVE  /\ Front(s) \in Seq(S) /\ Last(s) \in S /\ s = Append(Front(s), Last(s))
           /\ Len(Front(s)) = Len(s) - 1
           /\ \A i \in 1..(Len(s) - 1) : Front(s)[i] = s[i]
<1>1. Len(s) \in Nat \ {0}
  OBVIOUS
<1>2. /\ Front(s) \in Seq(S) /\ Len(Front(s)) = Len(s) - 1
      /\ \A i \in 1..(Len(s) - 1) : Front(s)[i] = s[i]
  <2> DEFINE n == Len(s) - 1
  <2>0. n \in Nat /\ \A i \in 1..n : s[i] \in S
    BY <1>1
  <2>2. Front(s) = SubSeq(s, 1, n)
    BY DEF Front
  <2> HIDE DEF n
  <2>1. /\ 1 \in Int /\ n \in Int /\ (IF 1 <= n THEN n - 1 + 1 ELSE 0) = n /\ n - 1 + 1 = n
        /\ \A i \in 1..n : 1 + i - 1 = i
    BY <2>0
  <2>3. /\ SubSeq(s, 1, n) \in Seq(S)
        /\ Len(SubSeq(s, 1, n)) = IF 1 <= n THEN n - 1 + 1 ELSE 0
        /\ \A i \in 1..(n - 1 + 1) : SubSeq(s, 1, n)[i] = s[1 + i - 1]
    BY <2>1, <2>0, SubSeqProperties
  <2>4. /\ Front(s) \in Seq(S) /\ Len(Front(s)) = n /\ \A i \in 1..n : Front(s)[i] = s[i]
    BY <2>1, <2>2, <2>3
  <2>5. QED BY <2>4 DEF n
<1>3. Last(s) \in S /\ Last(s) = s[Len(s)]
  BY <1>1 DEF Last
<1> DEFINE t == Append(Front(s), Last(s))
<1>4. t \in Seq(S) /\ Len(t) = Len(s) /\ \A i \in 1..Len(s) : t[i] = s[i]
  BY <1>1, <1>2, <1>3
<1> HIDE DEF t
<1>5. s = t
  BY <1>4
<1>6. QED BY <1>2, <1>3, <1>5 DEF t

LEMMA FrontHeaded ==
    ASSUME NEW file \in Seq(Lines), Headed(file), Last(file) # Header
    PROVE  Front(file) \in Seq(Lines) /\ Headed(Front(file)) /\ Last(file) \in Lines
<1>1. file # <<>> /\ file[1] = Header /\ Len(file) \in Nat
  BY DEF Headed
<1>2. Len(file) > 1
  BY <1>1 DEF Last
<1>3. Front(file) \in Seq(Lines) /\ Len(Front(file)) = Len(file) - 1 /\ Front(file)[1] = file[1]
      /\ Last(file) \in Lines
  BY <1>1, <1>2, FrontIs
<1>4. Front(file) # <<>>
  BY <1>2, <1>3
<1>5. QED BY <1>1, <1>3, <1>4 DEF Headed

LEMMA WithLineType ==
    ASSUME NEW file \in Seq(Lines), NEW line \in Lines
    PROVE  WithLine(file, line) \in Seq(Lines)
<1>1. CASE file = NoFile
  BY <1>1 DEF WithLine
<1>2. CASE file # NoFile /\ file # <<>> /\ Last(file) = Torn
  BY <1>2, FrontIs, LinesAre DEF WithLine
<1>3. CASE file # NoFile /\ ~(file # <<>> /\ Last(file) = Torn)
  BY <1>3 DEF WithLine
<1>4. QED BY <1>1, <1>2, <1>3

(* An append to a file that can be read: all that could be read of it can  *)
(* still be, and the new line too unless it comes behind one cut short.    *)
LEMMA WithLineLoads ==
    ASSUME NEW file \in Seq(Lines), Headed(file), NEW line \in Lines
    PROVE  /\ Headed(WithLine(file, line))
           /\ Last(file) # Torn /\ line \in Kept
              => Load(WithLine(file, line)) = Append(Load(file), line)
           /\ Last(file) = Torn \/ line \notin Kept
              => Load(WithLine(file, line)) = Load(file)
<1>0. file # NoFile /\ file # <<>>
  BY HeadedIs
<1>1. CASE Last(file) = Torn
  <2>1. Front(file) \in Seq(Lines) /\ Headed(Front(file)) /\ file = Append(Front(file), Torn)
    BY <1>0, <1>1, FrontHeaded, FrontIs, LinesAre
  <2>2. Load(file) = Load(Front(file))
    BY <2>1, LoadLonger, LinesAre
  <2>3. WithLine(file, line) = Append(Front(file), Garbled)
    BY <1>0, <1>1 DEF WithLine
  <2>4. Headed(WithLine(file, line)) /\ Load(WithLine(file, line)) = Load(Front(file))
    BY <2>1, <2>3, LoadLonger, LinesAre
  <2>5. QED BY <1>1, <2>2, <2>4
<1>2. CASE Last(file) # Torn
  <2>1. WithLine(file, line) = Append(file, line)
    BY <1>0, <1>2 DEF WithLine
  <2>2. QED BY <1>2, <2>1, LoadLonger
<1>3. QED BY <1>1, <1>2

(* What is left of lines that begin with the header.                       *)
LEMMA AmongHeaded ==
    ASSUME NEW file \in Seq(Lines), Headed(file), NEW P, Header \in P
    PROVE  Headed(Among(file, P))
<1> DEFINE r == SubSeq(file, 2, Len(file))
           h == <<Header>>
<1>1. file # <<>> /\ file[1] = Header /\ Len(file) \in Nat \ {0} /\ Header \in Lines
  BY LinesAre DEF Headed
<1>2. r \in Seq(Lines) /\ h \in Seq(Lines)
  BY <1>1
<1>3. file = h \o r
  BY <1>1
<1>4. Among(h, P) = h
  BY <1>1, AmongOne
<1>5. Among(r, P) \in Seq(Lines)
  BY <1>2, AmongType
<1> HIDE DEF r
<1>6. Among(file, P) = h \o Among(r, P)
  <2> HIDE DEF h
  <2>1. Among(h \o r, P) = Among(h, P) \o Among(r, P)
    BY <1>2, AmongConcat
  <2>2. QED BY <1>3, <1>4, <2>1
<1>7. h \o Among(r, P) # <<>> /\ (h \o Among(r, P))[1] = Header
  BY <1>5
<1>8. QED BY <1>6, <1>7 DEF Headed

LEMMA LoadType ==
    ASSUME NEW file \in Seq(Lines)
    PROVE  /\ Load(file) \in Seq(Kept)
           /\ Load(file) # <<>> => Headed(file) /\ Whole(Load(file))
<1>1. CASE ~Headed(file)
  <2>1. Load(file) = <<>>
    BY <1>1, LoadNone
  <2>2. QED BY <2>1
<1>2. CASE Headed(file)
  <2> DEFINE f == Among(file, Kept)
  <2>1. Load(file) = f /\ f \in Seq(Lines) /\ Headed(f)
    BY <1>2, LoadIs, AmongHeaded, AmongType, LinesAre
  <2>2. \A i \in 1..Len(f) : f[i] \in Kept
    <3>1. \A i \in 1..Len(f) : \E k \in 1..Len(file) : file[k] \in Kept /\ f[i] = file[k]
      BY AmongType
    <3>2. QED BY <3>1
  <2> HIDE DEF f
  <2>3. f \in Seq(Kept)
    BY <2>1, <2>2
  <2>4. QED BY <1>2, <2>1, <2>3 DEF Whole
<1>3. QED BY <1>1, <1>2

LEMMA ElementsOfAppend ==
    ASSUME NEW S, NEW s \in Seq(S), NEW e
    PROVE  ToSet(Append(s, e)) = ToSet(s) \cup {e}
<1> DEFINE t == Append(s, e)
<1>1. /\ DOMAIN s = 1..Len(s) /\ DOMAIN t = 1..(Len(s) + 1) /\ Len(s) \in Nat
      /\ t[Len(s) + 1] = e /\ \A i \in 1..Len(s) : t[i] = s[i]
  OBVIOUS
<1> HIDE DEF t
<1>2. ASSUME NEW x \in ToSet(t) PROVE x \in ToSet(s) \cup {e}
  <2>1. PICK i \in 1..(Len(s) + 1) : x = t[i]
    BY <1>1, <1>2 DEF ToSet
  <2>2. CASE i = Len(s) + 1
    BY <1>1, <2>1, <2>2
  <2>3. CASE i \in 1..Len(s)
    BY <1>1, <2>1, <2>3 DEF ToSet
  <2>4. QED BY <1>1, <2>1, <2>2, <2>3
<1>3. ASSUME NEW x \in ToSet(s) PROVE x \in ToSet(t)
  <2>1. PICK i \in 1..Len(s) : x = s[i]
    BY <1>1, <1>3 DEF ToSet
  <2>2. i \in 1..(Len(s) + 1) /\ t[i] = x
    BY <1>1, <2>1
  <2>3. QED BY <1>1, <2>2 DEF ToSet
<1>4. e \in ToSet(t)
  <2>1. Len(s) + 1 \in DOMAIN t
    BY <1>1
  <2>2. QED BY <1>1, <2>1 DEF ToSet
<1>5. ToSet(t) = ToSet(s) \cup {e}
  BY <1>2, <1>3, <1>4
<1>6. QED BY <1>5 DEF t

LEMMA ElementsOfPruned ==
    ASSUME NEW s, Whole(s), NEW dead, Header \notin dead
    PROVE  LET rest == Filtered(s, {i \in DOMAIN s : s[i] \notin dead})
           IN  Whole(rest) /\ \A e \in ToSet(s) : e \notin dead => e \in ToSet(rest)
<1> DEFINE P == Kept \ dead
           K == {i \in DOMAIN s : s[i] \notin dead}
           rest == Filtered(s, K)
<1>1. s \in Seq(Lines) /\ s \in Seq(Kept) /\ Headed(s)
  BY WholeType
<1>2. K = {i \in DOMAIN s : s[i] \in P}
  BY <1>1
<1>3. rest = Among(s, P)
  BY <1>2 DEF Among
<1> HIDE DEF K
<1>4. Headed(rest) /\ rest \in Seq(Kept)
  BY <1>1, <1>3, AmongHeaded, AmongType, LinesAre
<1>5. ASSUME NEW k \in 1..Len(s), s[k] \in P PROVE \E i \in 1..Len(rest) : rest[i] = s[k]
  <2> HIDE DEF P, rest
  <2>1. \E i \in 1..Len(Among(s, P)) : Among(s, P)[i] = s[k]
    BY <1>1, <1>5, AmongHas
  <2>2. QED BY <1>3, <2>1
<1>6. ASSUME NEW e \in ToSet(s), e \notin dead PROVE e \in ToSet(rest)
  <2>1. PICK k \in 1..Len(s) : s[k] = e
    BY <1>1, <1>6 DEF ToSet
  <2>2. PICK i \in 1..Len(rest) : rest[i] = e
    BY <1>1, <1>5, <1>6, <2>1
  <2>3. QED BY <1>4, <2>2 DEF ToSet
<1>7. Whole(rest)
  BY <1>4 DEF Whole
<1>8. QED BY <1>6, <1>7 DEF K

-----------------------------------------------------------------------------
(* The types *)

MemoryTypes ==
    /\ up \in BOOLEAN
    /\ assistants \subseteq 1..MaxEntries
    /\ flushed \in BOOLEAN /\ needsRewrite \in BOOLEAN
    /\ ensured \in BOOLEAN /\ persistError \in BOOLEAN
    /\ losses \subseteq Losses
    /\ appended \in 0..MaxEntries
    /\ requests \in 0..MaxRequests
    /\ faults \in 0..MaxFaults
    /\ deaths \in 0..MaxDeaths

EntryTypes ==
    /\ entries \in Seq(Lines)
    /\ up => Whole(entries)
    /\ saved \subseteq 1..MaxEntries

TaskTypes ==
    /\ writer \in {"none", "open", "closing"}
    /\ fd \in {"none", "primary", "backup", "gone"}
    /\ (fd = "none") <=> (writer = "none")
    /\ chain \in Seq(Tasks)
    /\ step \in Steps
    /\ step # "idle" => chain # <<>>
    /\ step = "closing" <=> writer = "closing"
    /\ ~up => ~flushed /\ writer = "none" /\ chain = <<>>

DiskTypes ==
    /\ temp \in Seq(Lines) /\ primary \in Seq(Lines)
    /\ backups \in Seq(Seq(Lines))
    /\ fd = "backup" => backups # <<>>
    /\ step \in {"promote", "rollback", "discard"} => backups # <<>>
    /\ Snapshotted => Whole(temp)

FileTypes == MemoryTypes /\ EntryTypes /\ TaskTypes /\ DiskTypes

FileIInv == FileTypes /\ FilePlaced /\ SavedKept /\ WantedWritten /\ FileFollows

LEMMA Counted ==
    /\ Fault /\ faults \in 0..MaxFaults => faults' \in 0..MaxFaults
    /\ deaths \in 0..MaxDeaths /\ deaths < MaxDeaths => deaths + 1 \in 0..MaxDeaths
    /\ requests \in 0..MaxRequests /\ requests < MaxRequests => requests + 1 \in 0..MaxRequests
    /\ appended \in 0..MaxEntries /\ appended < MaxEntries
       => appended + 1 \in 1..MaxEntries /\ appended + 1 \in 0..MaxEntries
BY PersistenceAssumption DEF Fault

(* An append is one of five things.                                        *)
LEMMA Appends ==
    Append1 =>
        /\ up /\ appended < MaxEntries /\ appended' = appended + 1
        /\ entries' = Append(entries, appended')
        /\ assistants' \subseteq assistants \cup {appended'} /\ assistants \subseteq assistants'
        /\ UNCHANGED <<up, needsRewrite, ensured, step, requests, deaths>>
        /\ \/ persistError /\ UNCHANGED <<flushed, persistError, chain, writerVars, diskVars,
                                          historyVars, faults>>
           \/ ~persistError /\ ~Wanted(entries', assistants') /\ DeferredWrite
           \/ /\ ~persistError /\ Wanted(entries', assistants')
              /\ needsRewrite \/ ~flushed \/ writer = "closing"
              /\ QueuedWrite
           \/ /\ ~persistError /\ ~needsRewrite /\ flushed /\ writer # "closing"
              /\ HotWrite(appended') \/ HotWriteFails(appended')
<1> SUFFICES ASSUME NEW b \in BOOLEAN, AppendEntry(b)
             PROVE  /\ up /\ appended < MaxEntries /\ appended' = appended + 1
                    /\ entries' = Append(entries, appended')
                    /\ assistants' \subseteq assistants \cup {appended'}
                    /\ assistants \subseteq assistants'
                    /\ UNCHANGED <<up, needsRewrite, ensured, step, requests, deaths>>
                    /\ \/ persistError /\ UNCHANGED <<flushed, persistError, chain, writerVars,
                                                      diskVars, historyVars, faults>>
                       \/ ~persistError /\ ~Wanted(entries', assistants') /\ DeferredWrite
                       \/ /\ ~persistError /\ Wanted(entries', assistants')
                          /\ needsRewrite \/ ~flushed \/ writer = "closing"
                          /\ QueuedWrite
                       \/ /\ ~persistError /\ ~needsRewrite /\ flushed /\ writer # "closing"
                          /\ HotWrite(appended') \/ HotWriteFails(appended')
  BY DEF Append1
<1>1. Persist(appended', entries', assistants')
  BY DEF AppendEntry
<1>2. assistants' \subseteq assistants \cup {appended'} /\ assistants \subseteq assistants'
  BY DEF AppendEntry
<1>3. QED BY <1>1, <1>2 DEF AppendEntry, Persist

LEMMA MemoryTypesStep == MemoryTypes /\ [FileNext]_persistVars => MemoryTypes'
<1> SUFFICES ASSUME MemoryTypes, [FileNext]_persistVars PROVE MemoryTypes'
  OBVIOUS
<1> USE PersistenceAssumption DEF MemoryTypes, Losses, memoryVars, diskVars, writerVars, historyVars, counterVars
<1>1. CASE Append1
  <2>0. /\ up /\ appended < MaxEntries /\ appended' = appended + 1
        /\ entries' = Append(entries, appended')
        /\ assistants' \subseteq assistants \cup {appended'} /\ assistants \subseteq assistants'
        /\ UNCHANGED <<up, needsRewrite, ensured, step, requests, deaths>>
    BY <1>1, Appends
  <2>2. appended' \in 1..MaxEntries /\ appended' \in 0..MaxEntries
    BY <2>0, Counted
  <2>4. CASE UNCHANGED <<flushed, persistError, chain, writerVars, diskVars, historyVars, faults>>
    BY <2>0, <2>2, <2>4
  <2>5. CASE ~persistError /\ ~Wanted(entries', assistants') /\ DeferredWrite
    BY <2>0, <2>2, <2>5 DEF DeferredWrite
  <2>6. CASE ~persistError /\ QueuedWrite
    BY <2>0, <2>2, <2>6 DEF QueuedWrite
  <2>7. CASE /\ ~persistError /\ ~needsRewrite /\ flushed /\ writer # "closing"
             /\ HotWrite(appended')
    BY <2>0, <2>2, <2>7 DEF HotWrite
  <2>8. CASE /\ ~persistError /\ ~needsRewrite /\ flushed /\ writer # "closing"
             /\ HotWriteFails(appended')
    <3>1. Fault
      BY <2>8 DEF HotWriteFails, Fault
    <3>2. QED BY <2>0, <2>2, <2>8, <3>1, Counted DEF HotWriteFails
  <2>9. QED BY <1>1, <2>4, <2>5, <2>6, <2>7, <2>8, Appends
<1>2. CASE Rewrite
  BY <1>2, Counted DEF Rewrite, Request
<1>3. CASE EnsureOnDisk
  BY <1>3, Counted DEF EnsureOnDisk, Request
<1>4. CASE up /\ Prune1
  BY <1>4, Counted DEF Prune1, Prune, Request
<1>5. CASE Close
  BY <1>5, Counted DEF Close, Request
<1>6. CASE SkipTask
  BY <1>6, Counted DEF SkipTask, EndTask, Running
<1>7. CASE BeginTask
  BY <1>7, Counted DEF BeginTask, Running
<1>8. CASE EndClose
  BY <1>8, Counted DEF EndClose, Running
<1>9. CASE EndCloseTask
  BY <1>9, Counted DEF EndCloseTask, EndTask, Running
<1>10. CASE Snapshot
  BY <1>10, Counted DEF Snapshot, Running
<1>11. CASE WriteTemp
  BY <1>11, Counted DEF WriteTemp, FailTask, EndTask, Running
<1>12. CASE Replace
  BY <1>12, Counted DEF Replace, FailTask, EndTask, EndRewrite, Running
<1>13. CASE Aside
  BY <1>13, Counted DEF Aside, FailTask, EndTask, Running
<1>14. CASE Place
  BY <1>14, Counted DEF Place, FailTask, EndTask, EndRewrite, Running
<1>15. CASE Promote
  BY <1>15, Counted DEF Promote, Running
<1>16. CASE Rollback
  BY <1>16, Counted DEF Rollback, FailTask, EndTask, Running
<1>17. CASE Discard
  BY <1>17, Counted DEF Discard, EndTask, EndRewrite, Running
<1>18. CASE Die
  BY <1>18, Counted DEF Die
<1>19. CASE ResumeListed
  BY <1>19, Counted DEF ResumeListed, LoadFile
<1>20. CASE ResumePath
  BY <1>20, Counted DEF ResumePath, LoadFile
<1>21. CASE UNCHANGED persistVars
  BY <1>21 DEF persistVars
<1>22. QED
  BY <1>1, <1>2, <1>3, <1>4, <1>5, <1>6, <1>7, <1>8, <1>9, <1>10, <1>11, <1>12, <1>13, <1>14, <1>15, <1>16, <1>17, <1>18, <1>19, <1>20, <1>21 DEF FileNext, Work

LEMMA ScannedType ==
    primary \in Seq(Lines) /\ backups \in Seq(Seq(Lines)) => Scanned \in Seq(Lines)
<1> SUFFICES ASSUME primary \in Seq(Lines), backups \in Seq(Seq(Lines))
             PROVE  Scanned \in Seq(Lines)
  OBVIOUS
<1>1. CASE backups # <<>>
  BY <1>1, FrontIs DEF Scanned
<1>2. CASE backups = <<>>
  BY <1>2 DEF Scanned
<1>3. QED BY <1>1, <1>2

LEMMA ElementsType ==
    ASSUME NEW S, NEW s \in Seq(S)
    PROVE  ToSet(s) \subseteq S
BY DEF ToSet

LEMMA TakenType ==
    /\ Taken \subseteq ToSet(temp) /\ Taken \subseteq ToSet(entries)
    /\ Whole(entries) => Taken \subseteq 1..MaxEntries
<1>1. Taken \subseteq ToSet(temp) /\ Taken \subseteq ToSet(entries) /\ Header \notin Taken
  BY DEF Taken
<1>2. ASSUME Whole(entries) PROVE Taken \subseteq 1..MaxEntries
  <2>1. ToSet(entries) \subseteq Kept
    BY <1>2, WholeType, ElementsType
  <2>2. QED BY <1>1, <2>1, LinesAre
<1>3. QED BY <1>1, <1>2

LEMMA WholeLonger ==
    ASSUME NEW file, Whole(file), NEW e \in 1..MaxEntries
    PROVE  Whole(Append(file, e)) /\ Append(file, e) \in Seq(Lines)
           /\ ToSet(Append(file, e)) = ToSet(file) \cup {e}
<1>1. file \in Seq(Lines) /\ file \in Seq(Kept) /\ Headed(file) /\ e \in Kept /\ e \in Lines
  BY WholeType, LinesAre
<1>2. Append(file, e) \in Seq(Lines) /\ Headed(Append(file, e))
  BY <1>1, LoadLonger
<1>3. Append(file, e) \in Seq(Kept)
  BY <1>1
<1>4. QED BY <1>1, <1>2, <1>3, ElementsOfAppend DEF Whole

LEMMA WholeHeader == Whole(<<Header>>) /\ ToSet(<<Header>>) = {Header}
<1>1. <<Header>> \in Seq(Kept) /\ <<Header>> # <<>> /\ <<Header>>[1] = Header
  BY LinesAre
<1>2. DOMAIN <<Header>> = {1}
  OBVIOUS
<1>3. QED BY <1>1, <1>2 DEF Whole, Headed, ToSet

(* What a pruning leaves.                                                  *)
LEMMA Prunes ==
    up /\ Prune1 /\ Whole(entries) =>
        \E dead : /\ Prune(dead) /\ Header \notin dead
                  /\ Whole(entries')
                  /\ \A e \in ToSet(entries) : e \notin dead => e \in ToSet(entries')
<1> SUFFICES ASSUME up, Prune1, Whole(entries)
             PROVE  \E dead : /\ Prune(dead) /\ Header \notin dead
                              /\ Whole(entries')
                              /\ \A e \in ToSet(entries) : e \notin dead => e \in ToSet(entries')
  OBVIOUS
<1>1. PICK dead : Prune(dead) /\ Header \notin dead
  BY DEF Prune1
<1>2. entries' = Filtered(entries, {i \in DOMAIN entries : entries[i] \notin dead})
  BY <1>1 DEF Prune
<1>3. Whole(entries') /\ \A e \in ToSet(entries) : e \notin dead => e \in ToSet(entries')
  BY <1>1, <1>2, ElementsOfPruned
<1>4. QED BY <1>1, <1>3

LEMMA EntryTypesStep == FileTypes /\ [FileNext]_persistVars => EntryTypes'
<1> SUFFICES ASSUME FileTypes, [FileNext]_persistVars PROVE EntryTypes'
  OBVIOUS
<1>p. /\ MemoryTypes /\ entries \in Seq(Lines) /\ saved \subseteq 1..MaxEntries
      /\ up => Whole(entries)
  BY DEF FileTypes, EntryTypes
<1> USE DEF EntryTypes, memoryVars, diskVars, writerVars, historyVars, counterVars
<1>1. CASE Append1
  <2>0. /\ up /\ appended < MaxEntries /\ appended' = appended + 1
        /\ entries' = Append(entries, appended')
        /\ assistants' \subseteq assistants \cup {appended'} /\ assistants \subseteq assistants'
        /\ UNCHANGED <<up, needsRewrite, ensured, step, requests, deaths>>
    BY <1>1, Appends
  <2>2. /\ appended' \in 1..MaxEntries
        /\ Whole(entries') /\ entries' \in Seq(Lines)
    <3>1. appended' \in 1..MaxEntries
      BY <1>p, <2>0, Counted DEF MemoryTypes
    <3>2. QED BY <1>p, <2>0, <3>1, WholeLonger
  <2>4. CASE UNCHANGED <<flushed, persistError, chain, writerVars, diskVars, historyVars, faults>>
    BY <1>p, <2>0, <2>2, <2>4 DEF historyVars
  <2>5. CASE ~persistError /\ ~Wanted(entries', assistants') /\ DeferredWrite
    BY <1>p, <2>0, <2>2, <2>5 DEF DeferredWrite
  <2>6. CASE ~persistError /\ QueuedWrite
    BY <1>p, <2>0, <2>2, <2>6 DEF QueuedWrite
  <2>7. CASE /\ ~persistError /\ ~needsRewrite /\ flushed /\ writer # "closing"
             /\ HotWrite(appended')
    BY <1>p, <2>0, <2>2, <2>7 DEF HotWrite
  <2>8. CASE /\ ~persistError /\ ~needsRewrite /\ flushed /\ writer # "closing"
             /\ HotWriteFails(appended')
    BY <1>p, <2>0, <2>2, <2>8 DEF HotWriteFails
  <2>9. QED BY <1>1, <2>4, <2>5, <2>6, <2>7, <2>8, Appends
<1>2. CASE Rewrite
  BY <1>p, <1>2 DEF Rewrite, Request
<1>3. CASE EnsureOnDisk
  BY <1>p, <1>3 DEF EnsureOnDisk, Request
<1>4. CASE up /\ Prune1
  <2>1. PICK dead : Prune(dead) /\ Whole(entries')
    BY <1>p, <1>4, Prunes
  <2>2. entries' \in Seq(Lines) /\ saved' \subseteq saved
    BY <2>1, WholeType DEF Prune
  <2>3. QED BY <1>p, <2>1, <2>2
<1>5. CASE Close
  BY <1>p, <1>5 DEF Close, Request
<1>6. CASE SkipTask
  BY <1>p, <1>6 DEF SkipTask, EndTask, Running
<1>7. CASE BeginTask
  BY <1>p, <1>7 DEF BeginTask, Running
<1>8. CASE EndClose
  BY <1>p, <1>8 DEF EndClose, Running
<1>9. CASE EndCloseTask
  BY <1>p, <1>9 DEF EndCloseTask, EndTask, Running
<1>10. CASE Snapshot
  BY <1>p, <1>10 DEF Snapshot, Running
<1>11. CASE WriteTemp
  BY <1>p, <1>11 DEF WriteTemp, Fault, FailTask, EndTask, Running
<1>12. CASE Replace
  <2>1. saved' \in {saved, saved \cup Taken} /\ UNCHANGED <<up, entries>> /\ up
    BY <1>12 DEF Replace, Fault, FailTask, EndTask, EndRewrite, Running
  <2>2. QED BY <1>p, <2>1, TakenType
<1>13. CASE Aside
  BY <1>p, <1>13 DEF Aside, Fault, FailTask, EndTask, Running
<1>14. CASE Place
  <2>1. saved' \in {saved, saved \cup Taken} /\ UNCHANGED <<up, entries>> /\ up
    BY <1>14 DEF Place, Fault, FailTask, EndTask, EndRewrite, Running
  <2>2. QED BY <1>p, <2>1, TakenType
<1>15. CASE Promote
  <2>1. saved' \in {saved, saved \cup Taken} /\ UNCHANGED <<up, entries>> /\ up
    BY <1>15 DEF Promote, Fault, Running
  <2>2. QED BY <1>p, <2>1, TakenType
<1>16. CASE Rollback
  BY <1>p, <1>16 DEF Rollback, Fault, FailTask, EndTask, Running
<1>17. CASE Discard
  BY <1>p, <1>17 DEF Discard, Fault, EndTask, EndRewrite, Running
<1>18. CASE Die
  BY <1>p, <1>18 DEF Die
<1>19. CASE ResumeListed
  <2>1. entries' = Load(Scanned) /\ Load(Scanned) # <<>> /\ saved' = saved
    BY <1>19 DEF ResumeListed, LoadFile
  <2>2. Scanned \in Seq(Lines)
    BY ScannedType DEF FileTypes, DiskTypes
  <2>3. Whole(entries') /\ entries' \in Seq(Lines)
    BY <2>1, <2>2, LoadType, WholeType
  <2>4. QED BY <1>p, <2>1, <2>3
<1>20. CASE ResumePath
  <2>1. saved' = saved
    BY <1>20 DEF ResumePath
  <2>2. CASE LoadFile(primary)
    <3>1. entries' = Load(primary) /\ Load(primary) # <<>> /\ primary \in Seq(Lines)
      BY <2>2 DEF LoadFile, FileTypes, DiskTypes
    <3>2. Whole(entries') /\ entries' \in Seq(Lines)
      BY <3>1, LoadType, WholeType
    <3>3. QED BY <1>p, <2>1, <3>2
  <2>3. CASE entries' = <<Header>>
    BY <1>p, <2>1, <2>3, WholeHeader, WholeType
  <2>4. QED BY <1>20, <2>2, <2>3 DEF ResumePath
<1>21. CASE UNCHANGED persistVars
  BY <1>p, <1>21 DEF persistVars
<1>22. QED
  BY <1>1, <1>2, <1>3, <1>4, <1>5, <1>6, <1>7, <1>8, <1>9, <1>10, <1>11, <1>12, <1>13, <1>14, <1>15, <1>16, <1>17, <1>18, <1>19, <1>20, <1>21 DEF FileNext, Work

(* The end of a task, and a task more.                                     *)
LEMMA QueueIs ==
    /\ chain \in Seq(Tasks) /\ chain # <<>> /\ EndTask => chain' \in Seq(Tasks) /\ step' = "idle"
    /\ \A task \in Tasks : chain \in Seq(Tasks) =>
           Append(chain, task) \in Seq(Tasks) /\ Append(chain, task) # <<>>
    /\ {"rewrite", "ensure", "close"} \subseteq Tasks /\ <<"ensure">> \in Seq(Tasks)
    /\ <<"ensure">> # <<>> /\ <<>> \in Seq(Tasks)
<1>1. chain \in Seq(Tasks) /\ chain # <<>> => Tail(chain) \in Seq(Tasks)
  OBVIOUS
<1>2. ASSUME NEW task \in Tasks, chain \in Seq(Tasks)
      PROVE  Append(chain, task) \in Seq(Tasks) /\ Append(chain, task) # <<>>
  BY <1>2, AppendProperties
<1>3. <<"ensure">> \in Seq(Tasks) /\ <<"ensure">> # <<>>
  BY DEF Tasks
<1>4. QED BY <1>1, <1>2, <1>3 DEF EndTask, Tasks

LEMMA TaskTypesStep == TaskTypes /\ [FileNext]_persistVars => TaskTypes'
<1> SUFFICES ASSUME TaskTypes, [FileNext]_persistVars PROVE TaskTypes'
  OBVIOUS
<1> USE PersistenceAssumption DEF TaskTypes, memoryVars, diskVars, writerVars, historyVars, counterVars
<1>1. CASE Append1
  <2>0. /\ up /\ appended < MaxEntries /\ appended' = appended + 1
        /\ entries' = Append(entries, appended')
        /\ assistants' \subseteq assistants \cup {appended'} /\ assistants \subseteq assistants'
        /\ UNCHANGED <<up, needsRewrite, ensured, step, requests, deaths>>
    BY <1>1, Appends
  <2>4. CASE UNCHANGED <<flushed, persistError, chain, writerVars, diskVars, historyVars, faults>>
    BY <2>0, <2>4
  <2>5. CASE ~persistError /\ ~Wanted(entries', assistants') /\ DeferredWrite
    BY <2>0, <2>5 DEF DeferredWrite
  <2>6. CASE ~persistError /\ QueuedWrite
    BY <2>0, <2>6, QueueIs DEF QueuedWrite
  <2>7. CASE /\ ~persistError /\ ~needsRewrite /\ flushed /\ writer # "closing"
             /\ HotWrite(appended')
    <3>1. fd' \in {"primary", "backup", "gone"}
      BY <2>7 DEF HotWrite, Target
    <3>2. QED BY <2>0, <2>7, <3>1 DEF HotWrite
  <2>8. CASE /\ ~persistError /\ ~needsRewrite /\ flushed /\ writer # "closing"
             /\ HotWriteFails(appended')
    <3>1. fd' \in {"primary", "backup", "gone"}
      BY <2>8 DEF HotWriteFails, Target
    <3>2. QED BY <2>0, <2>8, <3>1 DEF HotWriteFails
  <2>9. QED BY <1>1, <2>4, <2>5, <2>6, <2>7, <2>8, Appends
<1>2. CASE Rewrite
  BY <1>2, QueueIs DEF Rewrite, Request, Steps
<1>3. CASE EnsureOnDisk
  BY <1>3, QueueIs DEF EnsureOnDisk, Request, Steps
<1>4. CASE up /\ Prune1
  BY <1>4, QueueIs DEF Prune1, Prune, Request
<1>5. CASE Close
  BY <1>5, QueueIs DEF Close, Request, Steps
<1>6. CASE SkipTask
  BY <1>6, QueueIs DEF SkipTask, Running, Steps
<1>7. CASE BeginTask
  BY <1>7, QueueIs DEF BeginTask, Running, Steps
<1>8. CASE EndClose
  BY <1>8, QueueIs DEF EndClose, Running, Steps
<1>9. CASE EndCloseTask
  BY <1>9, QueueIs DEF EndCloseTask, Running, Steps
<1>10. CASE Snapshot
  BY <1>10, QueueIs DEF Snapshot, Running, Steps
<1>11. CASE WriteTemp
  BY <1>11, QueueIs DEF WriteTemp, FailTask, Running, Steps
<1>12. CASE Replace
  BY <1>12, QueueIs DEF Replace, FailTask, EndRewrite, Running, Steps, FollowTo
<1>13. CASE Aside
  BY <1>13, QueueIs DEF Aside, FailTask, Running, Steps, FollowTo
<1>14. CASE Place
  BY <1>14, QueueIs DEF Place, FailTask, EndRewrite, Running, Steps, FollowTo
<1>15. CASE Promote
  BY <1>15, QueueIs DEF Promote, Running, Steps, FollowTo
<1>16. CASE Rollback
  BY <1>16, QueueIs DEF Rollback, FailTask, Running, Steps, FollowTo
<1>17. CASE Discard
  BY <1>17, QueueIs DEF Discard, EndRewrite, Running, Steps, FollowTo
<1>18. CASE Die
  BY <1>18, QueueIs DEF Die, Steps
<1>19. CASE ResumeListed
  BY <1>19, QueueIs DEF ResumeListed, LoadFile, Steps
<1>20. CASE ResumePath
  BY <1>20, QueueIs DEF ResumePath, LoadFile, Steps
<1>21. CASE UNCHANGED persistVars
  BY <1>21 DEF persistVars
<1>22. QED
  BY <1>1, <1>2, <1>3, <1>4, <1>5, <1>6, <1>7, <1>8, <1>9, <1>10, <1>11, <1>12, <1>13, <1>14, <1>15, <1>16, <1>17, <1>18, <1>19, <1>20, <1>21 DEF FileNext, Work

LEMMA BackupsAre ==
    backups \in Seq(Seq(Lines)) /\ backups # <<>> =>
        /\ Front(backups) \in Seq(Seq(Lines)) /\ Last(backups) \in Seq(Lines)
        /\ \A file \in Seq(Lines) : Append(Front(backups), file) \in Seq(Seq(Lines))
        /\ \A file \in Seq(Lines) : Append(Front(backups), file) # <<>>
<1> SUFFICES ASSUME backups \in Seq(Seq(Lines)), backups # <<>>
             PROVE  /\ Front(backups) \in Seq(Seq(Lines)) /\ Last(backups) \in Seq(Lines)
                    /\ \A file \in Seq(Lines) : Append(Front(backups), file) \in Seq(Seq(Lines))
                    /\ \A file \in Seq(Lines) : Append(Front(backups), file) # <<>>
  OBVIOUS
<1> DEFINE F == Seq(Lines)
<1> HIDE DEF F
<1>1. backups \in Seq(F)
  BY DEF F
<1>2. Front(backups) \in Seq(F) /\ Last(backups) \in F
  BY <1>1, FrontIs
<1>3. \A file \in F : Append(Front(backups), file) \in Seq(F) /\ Append(Front(backups), file) # <<>>
  BY <1>2, AppendProperties
<1>4. QED BY <1>2, <1>3 DEF F

LEMMA WriteToType ==
    ASSUME primary \in Seq(Lines), backups \in Seq(Seq(Lines)),
           NEW target, target = "backup" => backups # <<>>,
           NEW line \in Lines, WriteTo(target, line)
    PROVE  /\ primary' \in Seq(Lines) /\ backups' \in Seq(Seq(Lines)) /\ temp' = temp
           /\ backups # <<>> => backups' # <<>>
<1>1. primary' \in Seq(Lines)
  BY WithLineType DEF WriteTo
<1>2. CASE target = "backup"
  <2>1. Front(backups) \in Seq(Seq(Lines)) /\ WithLine(Last(backups), line) \in Seq(Lines)
    BY <1>2, BackupsAre, WithLineType
  <2>2. backups' = Append(Front(backups), WithLine(Last(backups), line)) /\ temp' = temp
    BY <1>2 DEF WriteTo
  <2>3. QED BY <1>1, <1>2, <2>1, <2>2, BackupsAre
<1>3. CASE target # "backup"
  BY <1>1, <1>3 DEF WriteTo
<1>4. QED BY <1>2, <1>3

LEMMA DiskTypesStep == FileTypes /\ [FileNext]_persistVars => DiskTypes'
<1> SUFFICES ASSUME FileTypes, [FileNext]_persistVars PROVE DiskTypes'
  OBVIOUS
<1>p. /\ MemoryTypes /\ EntryTypes /\ TaskTypes
      /\ up => Whole(entries)
      /\ temp \in Seq(Lines) /\ primary \in Seq(Lines) /\ backups \in Seq(Seq(Lines))
      /\ fd = "backup" => backups # <<>>
      /\ step \in {"promote", "rollback", "discard"} => backups # <<>>
      /\ Snapshotted => Whole(temp)
  BY DEF FileTypes, DiskTypes, EntryTypes
<1> USE DEF DiskTypes, Snapshotted, memoryVars, diskVars, writerVars, historyVars, counterVars
<1>1. CASE Append1
  <2>0. /\ up /\ appended < MaxEntries /\ appended' = appended + 1
        /\ entries' = Append(entries, appended')
        /\ assistants' \subseteq assistants \cup {appended'} /\ assistants \subseteq assistants'
        /\ UNCHANGED <<up, needsRewrite, ensured, step, requests, deaths>>
    BY <1>1, Appends
  <2>2. appended' \in 1..MaxEntries
    BY <1>p, <2>0, Counted DEF MemoryTypes
  <2>4. CASE UNCHANGED <<flushed, persistError, chain, writerVars, diskVars, historyVars, faults>>
    BY <1>p, <2>0, <2>4
  <2>5. CASE ~persistError /\ ~Wanted(entries', assistants') /\ DeferredWrite
    BY <1>p, <2>0, <2>5 DEF DeferredWrite
  <2>6. CASE ~persistError /\ QueuedWrite
    BY <1>p, <2>0, <2>6 DEF QueuedWrite
  <2>7. CASE /\ ~persistError /\ ~needsRewrite /\ flushed /\ writer # "closing"
             /\ HotWrite(appended')
    <3>1. Target = "backup" => backups # <<>>
      BY <1>p DEF Target
    <3>2. \/ UNCHANGED diskVars
          \/ \E line \in Lines : WriteTo(Target, line)
      BY <2>2, <2>7, LinesAre DEF HotWrite
    <3>3. /\ primary' \in Seq(Lines) /\ backups' \in Seq(Seq(Lines)) /\ temp' = temp
          /\ backups # <<>> => backups' # <<>>
      BY <1>p, <3>1, <3>2, WriteToType
    <3>4. fd' = "backup" => backups # <<>>
      BY <2>7, <3>1 DEF HotWrite
    <3>5. QED BY <1>p, <2>0, <3>3, <3>4
  <2>8. CASE /\ ~persistError /\ ~needsRewrite /\ flushed /\ writer # "closing"
             /\ HotWriteFails(appended')
    <3>1. Target = "backup" => backups # <<>>
      BY <1>p DEF Target
    <3>2. \/ UNCHANGED diskVars
          \/ \E line \in Lines : WriteTo(Target, line)
      BY <2>2, <2>8, LinesAre DEF HotWriteFails
    <3>3. /\ primary' \in Seq(Lines) /\ backups' \in Seq(Seq(Lines)) /\ temp' = temp
          /\ backups # <<>> => backups' # <<>>
      BY <1>p, <3>1, <3>2, WriteToType
    <3>4. fd' = "backup" => backups # <<>>
      BY <2>8, <3>1 DEF HotWriteFails
    <3>5. QED BY <1>p, <2>0, <3>3, <3>4
  <2>9. QED BY <1>1, <2>4, <2>5, <2>6, <2>7, <2>8, Appends
<1>2. CASE Rewrite
  BY <1>p, <1>2 DEF Rewrite, Request
<1>3. CASE EnsureOnDisk
  BY <1>p, <1>3 DEF EnsureOnDisk, Request
<1>4. CASE up /\ Prune1
  BY <1>p, <1>4 DEF Prune1, Prune, Request
<1>5. CASE Close
  BY <1>p, <1>5 DEF Close, Request
<1>6. CASE SkipTask
  BY <1>p, <1>6 DEF SkipTask, EndTask, Running
<1>7. CASE BeginTask
  BY <1>p, <1>7 DEF BeginTask, Running
<1>8. CASE EndClose
  BY <1>p, <1>8 DEF EndClose, Running
<1>9. CASE EndCloseTask
  BY <1>p, <1>9 DEF EndCloseTask, EndTask, Running
<1>10. CASE Snapshot
  <2>1. Whole(temp') /\ temp' \in Seq(Lines)
    BY <1>p, <1>10, WholeType DEF Snapshot, Running
  <2>2. QED BY <1>p, <1>10, <2>1 DEF Snapshot, Running
<1>11. CASE WriteTemp
  BY NoFileIs, <1>p, <1>11 DEF WriteTemp, FailTask, EndTask, Running, FollowTo
<1>12. CASE Replace
  BY NoFileIs, <1>p, <1>12 DEF Replace, FailTask, EndTask, EndRewrite, Running, FollowTo
<1>13. CASE Aside
  <2>1. CASE step' = "promote" /\ backups' = Append(backups, primary) /\ primary' = NoFile /\ temp' = temp
    <3>1. backups' \in Seq(Seq(Lines)) /\ backups' # <<>>
      BY <1>p, <2>1, AppendProperties
    <3>2. step = "aside"
      BY <1>13 DEF Aside, Running
    <3>3. QED BY <1>p, <2>1, <3>1, <3>2, NoFileIs
  <2>2. CASE step' = "place" /\ UNCHANGED <<diskVars, fd>>
    <3>1. step = "aside"
      BY <1>13 DEF Aside, Running
    <3>2. QED BY <1>p, <2>2, <3>1
  <2>3. CASE FailTask /\ temp' = NoFile /\ UNCHANGED <<primary, backups, fd>>
    BY <1>p, <2>3, NoFileIs DEF FailTask, EndTask
  <2>4. QED BY <1>13, <2>1, <2>2, <2>3 DEF Aside
<1>14. CASE Place
  BY NoFileIs, <1>p, <1>14 DEF Place, FailTask, EndTask, EndRewrite, Running, FollowTo
<1>15. CASE Promote
  BY NoFileIs, <1>p, <1>15 DEF Promote, Running, FollowTo
<1>16. CASE Rollback
  <2>1. backups # <<>> /\ step' = "idle" /\ temp' = NoFile
    BY <1>p, <1>16 DEF Rollback, Running, FailTask, EndTask
  <2>2. CASE primary' = Last(backups) /\ backups' = Front(backups) /\ fd' # "backup"
    BY <1>p, <2>1, <2>2, NoFileIs, BackupsAre
  <2>3. CASE UNCHANGED <<primary, backups, fd>>
    BY <1>p, <2>1, <2>3, NoFileIs
  <2>4. QED BY <1>p, <1>16, <2>2, <2>3 DEF Rollback
<1>17. CASE Discard
  <2>1. backups # <<>> /\ step' = "idle" /\ UNCHANGED <<temp, primary>>
    BY <1>p, <1>17 DEF Discard, Running, EndRewrite, EndTask
  <2>2. CASE backups' = Front(backups) /\ fd' # "backup"
    BY <1>p, <2>1, <2>2, BackupsAre
  <2>3. CASE UNCHANGED <<backups, fd>>
    BY <1>p, <2>1, <2>3
  <2>4. QED BY <1>p, <1>17, <2>2, <2>3 DEF Discard
<1>18. CASE Die
  BY NoFileIs, <1>p, <1>18 DEF Die
<1>19. CASE ResumeListed
  <2>1. /\ ~up /\ UNCHANGED <<writerVars, step, temp>> /\ primary' = Scanned
        /\ backups' = IF Scanned # primary THEN Front(backups) ELSE backups
    BY <1>19 DEF ResumeListed, LoadFile
  <2>2. fd' = "none" /\ step' = "idle"
    BY <1>p, <2>1 DEF TaskTypes
  <2>3. primary' \in Seq(Lines)
    BY <1>p, <2>1, ScannedType
  <2>4. backups' \in Seq(Seq(Lines))
    BY <1>p, <2>1, BackupsAre DEF Scanned
  <2>5. QED BY <1>p, <2>1, <2>2, <2>3, <2>4
<1>20. CASE ResumePath
  BY <1>p, <1>20 DEF ResumePath, LoadFile
<1>21. CASE UNCHANGED persistVars
  BY <1>p, <1>21 DEF persistVars
<1>22. QED
  BY <1>1, <1>2, <1>3, <1>4, <1>5, <1>6, <1>7, <1>8, <1>9, <1>10, <1>11, <1>12, <1>13, <1>14, <1>15, <1>16, <1>17, <1>18, <1>19, <1>20, <1>21 DEF FileNext, Work

LEMMA FileTypesStep == FileTypes /\ [FileNext]_persistVars => FileTypes'
BY MemoryTypesStep, EntryTypesStep, TaskTypesStep, DiskTypesStep DEF FileTypes

LEMMA LossesGrow == [FileNext]_persistVars => losses \subseteq losses'
<1> SUFFICES ASSUME [FileNext]_persistVars PROVE losses \subseteq losses'
  OBVIOUS
<1> USE DEF historyVars
<1>1. CASE Append1
  BY <1>1, Appends DEF DeferredWrite, QueuedWrite, HotWrite, HotWriteFails
<1>2. CASE \/ Rewrite \/ EnsureOnDisk \/ Close \/ SkipTask \/ BeginTask \/ EndClose \/ Snapshot
           \/ WriteTemp \/ Replace \/ Aside
  BY <1>2 DEF Rewrite, EnsureOnDisk, Close, SkipTask, BeginTask, EndClose, Snapshot, WriteTemp,
              Replace, Aside
<1>3. CASE Place \/ Promote \/ Rollback \/ Discard \/ Die \/ ResumeListed \/ ResumePath
  BY <1>3 DEF Place, Promote, Rollback, Discard, Die, ResumeListed, ResumePath
<1>4. CASE up /\ Prune1
  BY <1>4 DEF Prune1, Prune
<1>5. CASE EndCloseTask
  BY <1>5 DEF EndCloseTask
<1>6. CASE UNCHANGED persistVars
  BY <1>6 DEF persistVars
<1>7. QED BY <1>1, <1>2, <1>3, <1>4, <1>5, <1>6 DEF FileNext, Work

LEMMA QueueSets ==
    ASSUME chain \in Seq(Tasks)
    PROVE  /\ \A task : ToSet(Append(chain, task)) = ToSet(chain) \cup {task}
           /\ chain # <<>> => Head(chain) \in ToSet(chain) /\ ToSet(Tail(chain)) \subseteq ToSet(chain)
           /\ "close" \notin ToSet(<<>>) /\ "close" \notin ToSet(<<"ensure">>)
<1>1. \A task : ToSet(Append(chain, task)) = ToSet(chain) \cup {task}
  BY ElementsOfAppend
<1>2. ASSUME chain # <<>>
      PROVE  Head(chain) \in ToSet(chain) /\ ToSet(Tail(chain)) \subseteq ToSet(chain)
  <2>1. Len(chain) \in Nat \ {0} /\ Head(chain) = chain[1]
    BY <1>2
  <2>2. \A i \in DOMAIN Tail(chain) : i + 1 \in DOMAIN chain /\ Tail(chain)[i] = chain[i + 1]
    BY <1>2, <2>1
  <2>3. 1 \in DOMAIN chain
    BY <2>1
  <2>4. QED BY <2>1, <2>2, <2>3 DEF ToSet
<1>3. "close" \notin ToSet(<<>>) /\ "close" \notin ToSet(<<"ensure">>)
  BY DEF ToSet
<1>4. QED BY <1>1, <1>2, <1>3

-----------------------------------------------------------------------------
(* The hot path *)

(* An append that harms nothing goes to the end of a file that is in its   *)
(* place, and no rewrite has the entries.                                  *)
LEMMA HotAppends ==
    ASSUME FileTypes, FilePlaced, up, flushed, ~persistError, Unharmed, Unharmed',
           NEW e \in 1..MaxEntries, HotWrite(e) \/ HotWriteFails(e)
    PROVE  /\ ~Snapshotted /\ Headed(primary) /\ Headed(primary')
           /\ UNCHANGED <<temp, backups>>
           /\ HotWrite(e) => Load(primary') = Append(Load(primary), e)
           /\ HotWriteFails(e) => Load(primary') = Load(primary)
<1>1. ~Snapshotted /\ Target = "primary"
  BY DEF HotWrite, HotWriteFails, Unharmed
<1>2. Headed(primary)
  BY <1>1 DEF FilePlaced, Snapshotted
<1>3. primary \in Seq(Lines) /\ e \in Lines /\ e \in Kept
  BY LinesAre DEF FileTypes, DiskTypes
<1>4. CASE HotWrite(e)
  <2>1. primary' = WithLine(primary, e) /\ UNCHANGED <<temp, backups>>
    BY <1>1, <1>4 DEF HotWrite, WriteTo
  <2>2. Last(primary) # Torn
    BY <1>2, <1>4, HeadedIs DEF HotWrite, Unharmed
  <2>3. Headed(primary') /\ Load(primary') = Append(Load(primary), e)
    BY <1>2, <1>3, <2>1, <2>2, WithLineLoads
  <2>4. ~HotWriteFails(e)
    BY <1>4 DEF HotWrite, HotWriteFails, FileTypes, MemoryTypes
  <2>5. QED BY <1>1, <1>2, <1>4, <2>1, <2>3, <2>4
<1>5. CASE HotWriteFails(e)
  <2>1. ~HotWrite(e)
    BY <1>5 DEF HotWrite, HotWriteFails, FileTypes, MemoryTypes
  <2>2. CASE WriteTo(Target, Torn)
    <3>1. primary' = WithLine(primary, Torn) /\ UNCHANGED <<temp, backups>>
      BY <1>1, <2>2 DEF WriteTo
    <3>2. Headed(primary') /\ Load(primary') = Load(primary)
      BY <1>2, <1>3, <3>1, WithLineLoads, LinesAre
    <3>3. QED BY <1>1, <1>2, <2>1, <3>1, <3>2
  <2>3. CASE UNCHANGED diskVars
    BY <1>1, <1>2, <2>1, <2>3 DEF diskVars
  <2>4. QED BY <1>5, <2>2, <2>3 DEF HotWriteFails
<1>6. QED BY <1>4, <1>5

LEMMA FilePlacedStep == FileTypes /\ FilePlaced /\ [FileNext]_persistVars => FilePlaced'
<1> SUFFICES ASSUME FileTypes, FilePlaced, [FileNext]_persistVars PROVE FilePlaced'
  OBVIOUS
<1> SUFFICES ASSUME Unharmed'
             PROVE  /\ (/\ up' /\ ~persistError' /\ step' \notin {"place", "promote", "rollback"}
                        /\ flushed' \/ writer' # "none" \/ "close" \in ToSet(chain'))
                       => Headed(primary')
                    /\ step' \in {"promote", "rollback"} => primary' = NoFile
                    /\ step' = "discard" => Headed(primary')
  BY DEF FilePlaced
<1>p. /\ MemoryTypes /\ EntryTypes /\ TaskTypes /\ DiskTypes /\ Unharmed /\ Unharmed'
      /\ chain \in Seq(Tasks)
      /\ ~up => ~flushed /\ writer = "none" /\ chain = <<>> /\ step = "idle"
      /\ (/\ up /\ ~persistError /\ step \notin {"place", "promote", "rollback"}
          /\ flushed \/ writer # "none" \/ "close" \in ToSet(chain))
         => Headed(primary)
      /\ step \in {"promote", "rollback"} => primary = NoFile
      /\ step = "discard" => Headed(primary)
  <2>1. Unharmed
    BY LossesGrow DEF Unharmed
  <2>2. ~up => ~flushed /\ writer = "none" /\ chain = <<>> /\ step = "idle"
    BY DEF FileTypes, TaskTypes
  <2>3. QED BY <2>1, <2>2 DEF FileTypes, TaskTypes, FilePlaced
<1> USE DEF memoryVars, diskVars, writerVars, historyVars, counterVars
<1>1. CASE Append1
  <2>0. /\ up /\ appended < MaxEntries /\ appended' = appended + 1
        /\ entries' = Append(entries, appended')
        /\ assistants' \subseteq assistants \cup {appended'} /\ assistants \subseteq assistants'
        /\ UNCHANGED <<up, needsRewrite, ensured, step, requests, deaths>>
    BY <1>1, Appends
  <2>2. appended' \in 1..MaxEntries
    BY <1>p, <2>0, Counted DEF MemoryTypes
  <2>4. CASE UNCHANGED <<flushed, persistError, chain, writerVars, diskVars, historyVars, faults>>
    BY <1>p, <2>0, <2>4
  <2>5. CASE ~persistError /\ ~Wanted(entries', assistants') /\ DeferredWrite
    BY <1>p, <2>0, <2>5 DEF DeferredWrite
  <2>6. CASE ~persistError /\ QueuedWrite
    BY <1>p, <2>0, <2>6, QueueSets DEF QueuedWrite
  <2>7. CASE /\ ~persistError /\ ~needsRewrite /\ flushed /\ writer # "closing"
             /\ HotWrite(appended')
    <3>1. Headed(primary') /\ ~Snapshotted
      BY <1>p, <2>0, <2>2, <2>7, HotAppends
    <3>2. QED BY <1>p, <2>0, <3>1 DEF Snapshotted
  <2>8. CASE /\ ~persistError /\ ~needsRewrite /\ flushed /\ writer # "closing"
             /\ HotWriteFails(appended')
    <3>1. Headed(primary') /\ ~Snapshotted
      BY <1>p, <2>0, <2>2, <2>8, HotAppends
    <3>2. QED BY <1>p, <2>0, <3>1 DEF Snapshotted
  <2>9. QED BY <1>1, <2>4, <2>5, <2>6, <2>7, <2>8, Appends
<1>2. CASE Rewrite
  BY <1>p, <1>2, QueueSets DEF Rewrite, Request
<1>3. CASE EnsureOnDisk
  BY <1>p, <1>3, QueueSets DEF EnsureOnDisk, Request
<1>4. CASE up /\ Prune1
  BY <1>p, <1>4, QueueSets DEF Prune1, Prune, Request
<1>5. CASE Close
  BY <1>p, <1>5, QueueSets DEF Close, Request
<1>6. CASE SkipTask
  BY <1>p, <1>6, QueueSets DEF SkipTask, EndTask, Running
<1>7. CASE BeginTask
  BY <1>p, <1>7, QueueSets DEF BeginTask, Running
<1>8. CASE EndClose
  BY <1>p, <1>8, QueueSets DEF EndClose, Running
<1>9. CASE EndCloseTask
  BY <1>p, <1>9, QueueSets DEF EndCloseTask, EndTask, Running
<1>10. CASE Snapshot
  BY <1>p, <1>10, QueueSets DEF Snapshot, Running
<1>11. CASE WriteTemp
  BY <1>p, <1>11, QueueSets DEF WriteTemp, FailTask, EndTask, Running
<1>12. CASE Replace
  <2>1. Whole(temp) /\ Headed(temp)
    BY <1>p, <1>12, WholeType DEF Replace, Running, Snapshotted, DiskTypes
  <2>2. QED BY <1>p, <1>12, <2>1 DEF Replace, FailTask, EndTask, EndRewrite, Running
<1>13. CASE Aside
  BY <1>p, <1>13, QueueSets DEF Aside, FailTask, EndTask, Running
<1>14. CASE Place
  <2>1. Whole(temp) /\ Headed(temp)
    BY <1>p, <1>14, WholeType DEF Place, Running, Snapshotted, DiskTypes
  <2>2. QED BY <1>p, <1>14, <2>1 DEF Place, FailTask, EndTask, EndRewrite, Running
<1>15. CASE Promote
  <2>1. Whole(temp) /\ Headed(temp)
    BY <1>p, <1>15, WholeType DEF Promote, Running, Snapshotted, DiskTypes
  <2>2. QED BY <1>p, <1>15, <2>1 DEF Promote, FailTask, EndTask, EndRewrite, Running
<1>16. CASE Rollback
  BY <1>p, <1>16, QueueSets DEF Rollback, FailTask, EndTask, Running
<1>17. CASE Discard
  BY <1>p, <1>17, QueueSets DEF Discard, EndTask, EndRewrite, Running
<1>18. CASE Die
  BY <1>p, <1>18, QueueSets DEF Die
<1>19. CASE ResumeListed
  <2>1. /\ ~up /\ step' = step /\ primary' = Scanned /\ Load(Scanned) # <<>>
    BY <1>19 DEF ResumeListed, LoadFile
  <2>2. Headed(Scanned)
    BY <1>p, <2>1, ScannedType, LoadType DEF DiskTypes
  <2>3. step = "idle"
    BY <1>p, <2>1
  <2>4. QED BY <2>1, <2>2, <2>3
<1>20. CASE ResumePath
  <2>1. ~up /\ step = "idle" /\ step' = step /\ primary' = primary /\ ~flushed /\ writer' = "none"
    BY <1>p, <1>20 DEF ResumePath, LoadFile
  <2>2. CASE LoadFile(primary)
    <3>1. Headed(primary)
      BY <1>p, <2>2, LoadType DEF LoadFile, DiskTypes
    <3>2. QED BY <2>1, <3>1
  <2>3. CASE chain' = <<"ensure">> /\ flushed' = flushed
    BY <2>1, <2>3, QueueSets, <1>p
  <2>4. QED BY <1>20, <2>2, <2>3 DEF ResumePath
<1>21. CASE UNCHANGED persistVars
  BY <1>p, <1>21 DEF persistVars
<1>22. QED
  BY <1>1, <1>2, <1>3, <1>4, <1>5, <1>6, <1>7, <1>8, <1>9, <1>10, <1>11, <1>12, <1>13, <1>14, <1>15, <1>16, <1>17, <1>18, <1>19, <1>20, <1>21 DEF FileNext, Work

-----------------------------------------------------------------------------
(* What has been saved *)

LEMMA RecoverableIs ==
    /\ Headed(primary) => Recoverable = ToSet(Load(primary))
    /\ Headed(primary') => Recoverable' = ToSet(Load(primary'))
    /\ UNCHANGED <<primary, backups>> => Recoverable' = Recoverable
BY HeadedIs DEF Recoverable, Scanned

LEMMA SavedKeptStep == FileTypes /\ FilePlaced /\ SavedKept /\ [FileNext]_persistVars => SavedKept'
<1> SUFFICES ASSUME FileTypes, FilePlaced, SavedKept, [FileNext]_persistVars PROVE SavedKept'
  OBVIOUS
<1> SUFFICES ASSUME Unharmed'
             PROVE  /\ saved' \subseteq Recoverable'
                    /\ up' => saved' \subseteq ToSet(entries')
                    /\ Snapshotted' => saved' \subseteq ToSet(temp')
  BY DEF SavedKept
<1>p. /\ FileTypes /\ MemoryTypes /\ EntryTypes /\ TaskTypes /\ DiskTypes /\ Unharmed
      /\ ~up => step = "idle"
      /\ saved \subseteq Recoverable
      /\ up => saved \subseteq ToSet(entries)
      /\ Snapshotted => saved \subseteq ToSet(temp)
      /\ step \in {"promote", "rollback"} => primary = NoFile
      /\ step = "discard" => Headed(primary)
  <2>1. Unharmed
    BY LossesGrow DEF Unharmed
  <2>2. ~up => step = "idle"
    BY DEF FileTypes, TaskTypes
  <2>3. QED BY <2>1, <2>2 DEF FileTypes, SavedKept, FilePlaced
<1> USE DEF memoryVars, diskVars, writerVars, historyVars, counterVars
<1>1. CASE Append1
  <2>0. /\ up /\ appended < MaxEntries /\ appended' = appended + 1
        /\ entries' = Append(entries, appended')
        /\ assistants' \subseteq assistants \cup {appended'} /\ assistants \subseteq assistants'
        /\ UNCHANGED <<up, needsRewrite, ensured, step, requests, deaths>>
    BY <1>1, Appends
  <2>2. /\ appended' \in 1..MaxEntries
        /\ ToSet(entries') = ToSet(entries) \cup {appended'}
    <3>1. appended' \in 1..MaxEntries
      BY <1>p, <2>0, Counted DEF MemoryTypes
    <3>2. QED BY <1>p, <2>0, <3>1, ElementsOfAppend DEF EntryTypes
  <2>4. CASE UNCHANGED <<flushed, persistError, chain, writerVars, diskVars, historyVars, faults>>
    BY <1>p, <2>0, <2>2, <2>4, RecoverableIs DEF Snapshotted
  <2>5. CASE ~persistError /\ ~Wanted(entries', assistants') /\ DeferredWrite
    BY <1>p, <2>0, <2>2, <2>5, RecoverableIs DEF DeferredWrite, Snapshotted
  <2>6. CASE ~persistError /\ QueuedWrite
    BY <1>p, <2>0, <2>2, <2>6, RecoverableIs DEF QueuedWrite, Snapshotted
  <2>7. CASE /\ ~persistError /\ ~needsRewrite /\ flushed /\ writer # "closing"
             /\ HotWrite(appended')
    <3>1. /\ Headed(primary) /\ Headed(primary') /\ ~Snapshotted
          /\ HotWrite(appended') => Load(primary') = Append(Load(primary), appended')
          /\ HotWriteFails(appended') => Load(primary') = Load(primary)
      BY <1>p, <2>0, <2>2, <2>7, HotAppends
    <3>2. Load(primary) \in Seq(Kept)
      BY <1>p, LoadType DEF DiskTypes
    <3>3. saved' = saved \cup {appended'} /\ HotWrite(appended')
      BY <2>7 DEF HotWrite
    <3>4. ToSet(Load(primary')) = ToSet(Load(primary)) \cup {appended'}
      BY <3>1, <3>2, <3>3, ElementsOfAppend
    <3>5. saved' \subseteq Recoverable' /\ saved' \subseteq saved \cup {appended'}
      BY <1>p, <3>1, <3>3, <3>4, RecoverableIs
    <3>6. QED BY <1>p, <2>0, <2>2, <3>1, <3>5 DEF Snapshotted
  <2>8. CASE /\ ~persistError /\ ~needsRewrite /\ flushed /\ writer # "closing"
             /\ HotWriteFails(appended')
    <3>1. /\ Headed(primary) /\ Headed(primary') /\ ~Snapshotted
          /\ HotWrite(appended') => Load(primary') = Append(Load(primary), appended')
          /\ HotWriteFails(appended') => Load(primary') = Load(primary)
      BY <1>p, <2>0, <2>2, <2>8, HotAppends
    <3>2. Load(primary) \in Seq(Kept)
      BY <1>p, LoadType DEF DiskTypes
    <3>3. saved' \subseteq Recoverable' /\ saved' \subseteq saved \cup {appended'}
      BY <1>p, <2>8, <3>1, <3>2, RecoverableIs, ElementsOfAppend DEF HotWriteFails
    <3>4. QED BY <1>p, <2>0, <2>2, <3>1, <3>3 DEF Snapshotted
  <2>9. QED BY <1>1, <2>4, <2>5, <2>6, <2>7, <2>8, Appends
<1>2. CASE Rewrite
  BY <1>p, <1>2, RecoverableIs DEF Rewrite, Request, Snapshotted
<1>3. CASE EnsureOnDisk
  BY <1>p, <1>3, RecoverableIs DEF EnsureOnDisk, Request, Snapshotted
<1>4. CASE up /\ Prune1
  <2>1. PICK dead : /\ Prune(dead) /\ Header \notin dead
                    /\ \A e \in ToSet(entries) : e \notin dead => e \in ToSet(entries')
    BY <1>p, <1>4, Prunes DEF EntryTypes
  <2>2. saved' = saved \ dead /\ UNCHANGED <<primary, backups, temp, step>>
    BY <2>1 DEF Prune
  <2>3. QED BY <1>p, <1>4, <2>1, <2>2, RecoverableIs DEF Snapshotted
<1>5. CASE Close
  BY <1>p, <1>5, RecoverableIs DEF Close, Request, Snapshotted
<1>6. CASE SkipTask
  BY <1>p, <1>6, RecoverableIs DEF SkipTask, EndTask, Running, Snapshotted
<1>7. CASE BeginTask
  BY <1>p, <1>7, RecoverableIs DEF BeginTask, Running, Snapshotted
<1>8. CASE EndClose
  BY <1>p, <1>8, RecoverableIs DEF EndClose, Running, Snapshotted
<1>9. CASE EndCloseTask
  BY <1>p, <1>9, RecoverableIs DEF EndCloseTask, EndTask, Running, Snapshotted
<1>10. CASE Snapshot
  BY <1>p, <1>10, RecoverableIs DEF Snapshot, Running
<1>11. CASE WriteTemp
  <2>1. /\ Snapshotted /\ UNCHANGED <<primary, backups, saved, entries>> /\ up
        /\ step' = "idle" \/ temp' = temp
    BY <1>11 DEF WriteTemp, FailTask, EndTask, Running, Snapshotted
  <2>2. primary' = primary /\ backups' = backups /\ saved' = saved /\ entries' = entries
    BY <2>1
  <2>3. Recoverable' = Recoverable
    BY <2>2, RecoverableIs
  <2>4. Snapshotted' => temp' = temp
    BY <2>1 DEF Snapshotted
  <2>5. QED BY <1>p, <2>1, <2>2, <2>3, <2>4
<1>12. CASE Replace
  <2>1. Snapshotted /\ up /\ Whole(temp) /\ Headed(temp) /\ Load(temp) = temp
    BY <1>p, <1>12, WholeType, LoadWhole DEF Replace, Running, Snapshotted, DiskTypes
  <2>2. CASE primary' = temp /\ saved' = saved \cup Taken /\ step' = "idle" /\ entries' = entries
    <3>1. Recoverable' = ToSet(temp)
      BY <2>1, <2>2, RecoverableIs
    <3>2. QED BY <1>p, <2>1, <2>2, <3>1, TakenType DEF Snapshotted
  <2>3. CASE /\ UNCHANGED <<primary, backups, saved, entries>>
             /\ step' = "idle" \/ temp' = temp
    <3>1. primary' = primary /\ backups' = backups
      BY <2>3
    <3>2. Recoverable' = Recoverable
      BY <3>1, RecoverableIs
    <3>3. saved' = saved /\ entries' = entries
      BY <2>1, <2>3
    <3>4. Snapshotted' => temp' = temp
      BY <2>3 DEF Snapshotted
    <3>5. QED BY <1>p, <2>1, <3>2, <3>3, <3>4
  <2>4. QED BY <1>12, <2>2, <2>3 DEF Replace, FailTask, EndTask, EndRewrite, Running
<1>13. CASE Aside
  <2>1. Snapshotted /\ up /\ UNCHANGED <<entries, saved>>
    BY <1>13 DEF Aside, Running, Snapshotted
  <2>2. CASE primary # NoFile /\ primary' = NoFile /\ backups' = Append(backups, primary)
             /\ temp' = temp
    <3>1. backups' # <<>> /\ Last(backups') = primary
      <4> DEFINE F == Seq(Lines)
      <4> HIDE DEF F
      <4>1. backups \in Seq(F) /\ primary \in F
        BY <1>p DEF DiskTypes, F
      <4>2. backups' # <<>> /\ Len(backups') = Len(backups) + 1 /\ backups'[Len(backups) + 1] = primary
        BY <2>2, <4>1
      <4>3. QED BY <4>2 DEF Last
    <3>2. Scanned' = primary /\ Scanned = primary
      BY <2>2, <3>1 DEF Scanned
    <3>3. Recoverable' = Recoverable
      BY <3>2 DEF Recoverable
    <3>4. QED BY <1>p, <2>1, <2>2, <3>3 DEF Snapshotted
  <2>3. CASE /\ UNCHANGED <<primary, backups>>
             /\ step' = "idle" \/ temp' = temp
    <3>1. primary' = primary /\ backups' = backups
      BY <2>3
    <3>2. Recoverable' = Recoverable
      BY <3>1, RecoverableIs
    <3>3. saved' = saved /\ entries' = entries
      BY <2>1, <2>3
    <3>4. Snapshotted' => temp' = temp
      BY <2>3 DEF Snapshotted
    <3>5. QED BY <1>p, <2>1, <3>2, <3>3, <3>4
  <2>4. QED BY <1>13, <2>2, <2>3 DEF Aside, FailTask, EndTask
<1>14. CASE Place
  <2>1. Snapshotted /\ up /\ Whole(temp) /\ Headed(temp) /\ Load(temp) = temp
    BY <1>p, <1>14, WholeType, LoadWhole DEF Place, Running, Snapshotted, DiskTypes
  <2>2. CASE primary' = temp /\ saved' = saved \cup Taken /\ step' = "idle" /\ entries' = entries
    <3>1. Recoverable' = ToSet(temp)
      BY <2>1, <2>2, RecoverableIs
    <3>2. QED BY <1>p, <2>1, <2>2, <3>1, TakenType DEF Snapshotted
  <2>3. CASE /\ UNCHANGED <<primary, backups, saved, entries>>
             /\ step' = "idle" \/ temp' = temp
    <3>1. primary' = primary /\ backups' = backups
      BY <2>3
    <3>2. Recoverable' = Recoverable
      BY <3>1, RecoverableIs
    <3>3. saved' = saved /\ entries' = entries
      BY <2>1, <2>3
    <3>4. Snapshotted' => temp' = temp
      BY <2>3 DEF Snapshotted
    <3>5. QED BY <1>p, <2>1, <3>2, <3>3, <3>4
  <2>4. QED BY <1>14, <2>2, <2>3 DEF Place, FailTask, EndTask, EndRewrite, Running
<1>15. CASE Promote
  <2>1. Snapshotted /\ up /\ Whole(temp) /\ Headed(temp) /\ Load(temp) = temp
    BY <1>p, <1>15, WholeType, LoadWhole DEF Promote, Running, Snapshotted, DiskTypes
  <2>2. CASE primary' = temp /\ saved' = saved \cup Taken /\ step' = "discard" /\ entries' = entries
    <3>1. Recoverable' = ToSet(temp)
      BY <2>1, <2>2, RecoverableIs
    <3>2. QED BY <1>p, <2>1, <2>2, <3>1, TakenType DEF Snapshotted
  <2>3. CASE /\ UNCHANGED <<primary, backups, saved, entries>>
             /\ step' = "idle" \/ temp' = temp
    <3>1. primary' = primary /\ backups' = backups
      BY <2>3
    <3>2. Recoverable' = Recoverable
      BY <3>1, RecoverableIs
    <3>3. saved' = saved /\ entries' = entries
      BY <2>1, <2>3
    <3>4. Snapshotted' => temp' = temp
      BY <2>3 DEF Snapshotted
    <3>5. QED BY <1>p, <2>1, <3>2, <3>3, <3>4
  <2>4. QED BY <1>15, <2>2, <2>3 DEF Promote, Running
<1>16. CASE Rollback
  <2>1. /\ primary = NoFile /\ backups # <<>> /\ up /\ UNCHANGED <<entries, saved>>
        /\ step' = "idle"
    BY <1>p, <1>16 DEF Rollback, Running, FailTask, EndTask, DiskTypes
  <2>2. CASE primary' = Last(backups)
    <3>1. Scanned = Last(backups)
      BY <2>1 DEF Scanned
    <3>2. CASE Last(backups) # NoFile
      <4>1. Scanned' = Last(backups)
        BY <2>2, <3>2 DEF Scanned
      <4>2. Recoverable' = Recoverable
        BY <3>1, <4>1 DEF Recoverable
      <4>3. QED BY <1>p, <2>1, <4>2 DEF Snapshotted
    <3>3. CASE Last(backups) = NoFile
      <4>1. Load(Scanned) = <<>>
        BY <3>1, <3>3 DEF Load
      <4>2. Recoverable = {}
        BY <4>1 DEF Recoverable, ToSet
      <4>3. QED BY <1>p, <2>1, <4>2 DEF Snapshotted
    <3>4. QED BY <3>2, <3>3
  <2>3. CASE UNCHANGED <<primary, backups>>
    <3>1. primary' = primary /\ backups' = backups
      BY <2>3
    <3>2. Recoverable' = Recoverable
      BY <3>1, RecoverableIs
    <3>3. QED BY <1>p, <2>1, <3>2 DEF Snapshotted
  <2>4. QED BY <1>16, <2>2, <2>3 DEF Rollback
<1>17. CASE Discard
  <2>1. /\ Headed(primary) /\ primary' = primary /\ up /\ UNCHANGED <<entries, saved>>
        /\ step' = "idle"
    BY <1>p, <1>17 DEF Discard, Running, EndRewrite, EndTask, FilePlaced
  <2>2. Recoverable' = Recoverable
    BY <2>1, RecoverableIs
  <2>3. QED BY <1>p, <2>1, <2>2 DEF Snapshotted
<1>18. CASE Die
  BY <1>p, <1>18, RecoverableIs DEF Die, Snapshotted
<1>19. CASE ResumeListed
  <2>1. /\ step = "idle" /\ step' = step /\ primary' = Scanned /\ entries' = Load(Scanned)
        /\ Load(Scanned) # <<>> /\ saved' = saved
    BY <1>p, <1>19 DEF ResumeListed, LoadFile
  <2>2. Headed(Scanned)
    BY <1>p, <2>1, ScannedType, LoadType DEF DiskTypes
  <2>3. Recoverable' = Recoverable /\ Recoverable = ToSet(entries')
    BY <2>1, <2>2, RecoverableIs DEF Recoverable
  <2>4. QED BY <1>p, <2>1, <2>3 DEF Snapshotted
<1>20. CASE ResumePath
  <2>1. step = "idle" /\ step' = step /\ UNCHANGED <<primary, backups, saved>>
    BY <1>p, <1>20 DEF ResumePath, LoadFile
  <2>2. CASE LoadFile(primary)
    <3>1. Headed(primary) /\ entries' = Load(primary)
      BY <1>p, <2>2, LoadType DEF LoadFile, DiskTypes
    <3>2. QED BY <1>p, <2>1, <3>1, RecoverableIs DEF Snapshotted
  <2>3. CASE losses' = losses \cup {m \in {"buried"} : Recoverable # {}}
    <3>1. Recoverable = {}
      BY <1>p, <2>3 DEF Unharmed
    <3>2. QED BY <1>p, <2>1, <3>1, RecoverableIs DEF Snapshotted
  <2>4. QED BY <1>20, <2>2, <2>3 DEF ResumePath
<1>21. CASE UNCHANGED persistVars
  BY <1>p, <1>21, RecoverableIs DEF persistVars, Snapshotted
<1>22. QED
  BY <1>1, <1>2, <1>3, <1>4, <1>5, <1>6, <1>7, <1>8, <1>9, <1>10, <1>11, <1>12, <1>13, <1>14, <1>15, <1>16, <1>17, <1>18, <1>19, <1>20, <1>21 DEF FileNext, Work

-----------------------------------------------------------------------------
(* What is wanted, and what is awaited *)

Reading == {"idle", "closing", "snapshot"}

LEMMA SameWanted ==
    /\ ensured' = ensured => (Wanted(entries, assistants)' <=> Wanted(entries', assistants'))
    /\ UNCHANGED <<entries, assistants, ensured>>
       => (Wanted(entries, assistants)' <=> Wanted(entries, assistants))
BY DEF Wanted

LEMMA AwaitedOnce ==
    Awaited <=> \E i \in DOMAIN chain : chain[i] # "close" /\ (i > 1 \/ step \in Reading)
BY DEF Awaited, Reading

LEMMA AwaitedNext ==
    Awaited' <=> \E i \in DOMAIN chain' : chain'[i] # "close" /\ (i > 1 \/ step' \in Reading)
BY DEF Awaited, Reading

LEMMA SameAwaited ==
    chain' = chain /\ (step' \in Reading <=> step \in Reading) => (Awaited' <=> Awaited)
<1> SUFFICES ASSUME chain' = chain, step' \in Reading <=> step \in Reading
             PROVE  Awaited' <=> Awaited
  OBVIOUS
<1>1. QED BY AwaitedOnce, AwaitedNext

LEMMA AskedIsAwaited ==
    ASSUME TaskTypes, NEW task \in Tasks, chain' = Append(chain, task), step' = step
    PROVE  /\ task # "close" => Awaited'
           /\ task = "close" => (Awaited' <=> Awaited)
<1> DEFINE n == Len(chain)
<1>1. /\ n \in Nat /\ DOMAIN chain = 1..n /\ DOMAIN chain' = 1..(n + 1)
      /\ chain'[n + 1] = task /\ \A i \in 1..n : chain'[i] = chain[i]
  BY DEF TaskTypes
<1>2. n = 0 => step \in Reading
  BY DEF TaskTypes, Reading
<1> HIDE DEF n
<1>3. n + 1 \in DOMAIN chain' /\ (n + 1 > 1 \/ step' \in Reading)
  BY <1>1, <1>2
<1>4. ASSUME task # "close" PROVE Awaited'
  BY <1>1, <1>3, <1>4, AwaitedNext
<1>5. ASSUME task = "close" PROVE Awaited' <=> Awaited
  <2>1. ASSUME Awaited PROVE Awaited'
    <3>1. PICK i \in 1..n : chain[i] # "close" /\ (i > 1 \/ step \in Reading)
      BY <1>1, <2>1, AwaitedOnce
    <3>2. i \in DOMAIN chain' /\ chain'[i] # "close" /\ (i > 1 \/ step' \in Reading)
      BY <1>1, <3>1
    <3>3. QED BY <3>2, AwaitedNext
  <2>2. ASSUME Awaited' PROVE Awaited
    <3>1. PICK i \in 1..(n + 1) : chain'[i] # "close" /\ (i > 1 \/ step' \in Reading)
      BY <1>1, <2>2, AwaitedNext
    <3>2. i \in DOMAIN chain /\ chain[i] # "close" /\ (i > 1 \/ step \in Reading)
      BY <1>1, <1>5, <3>1
    <3>3. QED BY <3>2, AwaitedOnce
  <2>3. QED BY <2>1, <2>2
<1>6. QED BY <1>4, <1>5

(* The task that ends is not the one that is awaited.                      *)
LEMMA EndedWasNot ==
    ASSUME TaskTypes, chain # <<>>, EndTask, step \notin Reading \/ Head(chain) = "close"
    PROVE  Awaited' <=> Awaited
<1> DEFINE n == Len(chain)
<1>1. /\ n \in Nat \ {0} /\ DOMAIN chain = 1..n /\ DOMAIN chain' = 1..(n - 1)
      /\ Head(chain) = chain[1] /\ \A i \in 1..(n - 1) : chain'[i] = chain[i + 1]
  BY DEF TaskTypes, EndTask
<1>2. step' \in Reading
  BY DEF EndTask, Reading
<1> HIDE DEF n
<1>3. ASSUME Awaited PROVE Awaited'
  <2>1. PICK i \in 1..n : chain[i] # "close" /\ (i > 1 \/ step \in Reading)
    BY <1>1, <1>3, AwaitedOnce
  <2>2. i > 1
    BY <1>1, <2>1
  <2>3. i - 1 \in 1..(n - 1) /\ chain'[i - 1] = chain[i]
    BY <1>1, <2>2
  <2>4. QED BY <1>1, <1>2, <2>1, <2>3, AwaitedNext
<1>4. ASSUME Awaited' PROVE Awaited
  <2>1. PICK i \in 1..(n - 1) : chain'[i] # "close"
    BY <1>1, <1>4, AwaitedNext
  <2>2. i + 1 \in 1..n /\ chain[i + 1] # "close" /\ i + 1 > 1
    BY <1>1, <2>1
  <2>3. QED BY <1>1, <2>2, AwaitedOnce
<1>5. QED BY <1>3, <1>4

LEMMA EnsureIsAwaited ==
    chain' = <<"ensure">> /\ step' = "idle" => Awaited'
BY AwaitedNext DEF Reading

LEMMA WantedWrittenStep == FileTypes /\ WantedWritten /\ [FileNext]_persistVars => WantedWritten'
<1> SUFFICES ASSUME FileTypes, WantedWritten, [FileNext]_persistVars PROVE WantedWritten'
  OBVIOUS
<1> SUFFICES ASSUME up', ~persistError', Wanted(entries, assistants)'
             PROVE  flushed' \/ Awaited' \/ Snapshotted' \/ step' = "discard"
  BY DEF WantedWritten
<1>p. /\ TaskTypes
      /\ up /\ ~persistError /\ Wanted(entries, assistants)
         => flushed \/ Awaited \/ Snapshotted \/ step = "discard"
  BY DEF FileTypes, WantedWritten
<1> USE <1>p DEF memoryVars, diskVars, writerVars, historyVars, counterVars
<1>1. CASE Append1
  <2>0. /\ up /\ appended < MaxEntries /\ appended' = appended + 1
        /\ entries' = Append(entries, appended')
        /\ assistants' \subseteq assistants \cup {appended'} /\ assistants \subseteq assistants'
        /\ UNCHANGED <<up, needsRewrite, ensured, step, requests, deaths>>
    BY <1>1, Appends
  <2>4. CASE persistError /\ persistError' = persistError
    BY <2>4
  <2>5. CASE ~persistError /\ ~Wanted(entries', assistants') /\ DeferredWrite
    BY <2>0, <2>5, SameWanted DEF DeferredWrite
  <2>6. CASE ~persistError /\ QueuedWrite
    <3>1. Awaited'
      BY <2>0, <2>6, AskedIsAwaited, QueueIs DEF FileTypes, QueuedWrite
    <3>2. QED BY <3>1
  <2>7. CASE /\ ~persistError /\ ~needsRewrite /\ flushed /\ writer # "closing"
             /\ HotWrite(appended')
    BY <2>7 DEF HotWrite
  <2>8. CASE /\ ~persistError /\ ~needsRewrite /\ flushed /\ writer # "closing"
             /\ HotWriteFails(appended')
    BY <2>8 DEF HotWriteFails
  <2>9. QED BY <1>1, <2>4, <2>5, <2>6, <2>7, <2>8, Appends
<1>2. CASE Rewrite
  <2>1. Awaited'
    BY <1>p, <1>2, AskedIsAwaited, QueueIs DEF Rewrite, Request
  <2>2. QED BY <2>1
<1>3. CASE EnsureOnDisk
  <2>1. Awaited'
    BY <1>p, <1>3, AskedIsAwaited, QueueIs DEF EnsureOnDisk, Request
  <2>2. QED BY <2>1
<1>4. CASE up /\ Prune1
  <2>1. Awaited'
    BY <1>p, <1>4, AskedIsAwaited, QueueIs DEF Prune1, Prune, Request
  <2>2. QED BY <2>1
<1>5. CASE Close
  <2>1. Awaited' <=> Awaited
    BY <1>p, <1>5, AskedIsAwaited, QueueIs DEF Close, Request
  <2>2. UNCHANGED <<up, flushed, persistError, step, entries, assistants, ensured>>
    BY <1>5 DEF Close
  <2>3. QED BY <2>1, <2>2, SameWanted DEF Snapshotted
<1>6. CASE SkipTask
  BY <1>6, SameWanted, SameAwaited DEF SkipTask, Running, Reading, Snapshotted
<1>7. CASE BeginTask
  BY <1>7, SameWanted, SameAwaited DEF BeginTask, Running, Reading, Snapshotted
<1>8. CASE EndClose
  BY <1>8, SameWanted, SameAwaited DEF EndClose, Running, Reading, Snapshotted
<1>9. CASE EndCloseTask
  BY <1>9, SameWanted, SameAwaited DEF EndCloseTask, Running, Reading, Snapshotted
<1>10. CASE Snapshot
  BY <1>10, SameWanted, SameAwaited DEF Snapshot, Running, Reading, Snapshotted
<1>11. CASE WriteTemp
  BY <1>11, SameWanted, SameAwaited DEF WriteTemp, FailTask, Running, Reading, Snapshotted
<1>12. CASE Replace
  BY <1>12, SameWanted, SameAwaited DEF Replace, FailTask, EndRewrite, Running, Reading, Snapshotted
<1>13. CASE Aside
  BY <1>13, SameWanted, SameAwaited DEF Aside, FailTask, Running, Reading, Snapshotted
<1>14. CASE Place
  BY <1>14, SameWanted, SameAwaited DEF Place, FailTask, EndRewrite, Running, Reading, Snapshotted
<1>15. CASE Promote
  BY <1>15, SameWanted, SameAwaited DEF Promote, Running, Reading, Snapshotted
<1>16. CASE Rollback
  BY <1>16, SameWanted, SameAwaited DEF Rollback, FailTask, Running, Reading, Snapshotted
<1>17. CASE Discard
  BY <1>17, SameWanted, SameAwaited DEF Discard, EndRewrite, Running, Reading, Snapshotted
<1>18. CASE Die
  BY <1>18, SameWanted, SameAwaited DEF Die, Reading, Snapshotted
<1>19. CASE ResumeListed
  BY <1>19, SameWanted, SameAwaited DEF ResumeListed, LoadFile, Reading, Snapshotted
<1>20. CASE ResumePath
  <2>1. CASE LoadFile(primary)
    BY <2>1 DEF LoadFile
  <2>2. CASE chain' = <<"ensure">>
    <3>1. step' = "idle"
      BY <1>p, <1>20 DEF ResumePath, LoadFile, TaskTypes
    <3>2. QED BY <2>2, <3>1, EnsureIsAwaited
  <2>3. QED BY <1>20, <2>1, <2>2 DEF ResumePath
<1>21. CASE UNCHANGED persistVars
  BY <1>21, SameWanted, SameAwaited DEF persistVars, Snapshotted
<1>22. QED
  BY <1>1, <1>2, <1>3, <1>4, <1>5, <1>6, <1>7, <1>8, <1>9, <1>10, <1>11, <1>12, <1>13, <1>14, <1>15, <1>16, <1>17, <1>18, <1>19, <1>20, <1>21 DEF FileNext, Work

LEMMA FileFollowsStep == FileTypes /\ FilePlaced /\ FileFollows /\ [FileNext]_persistVars => FileFollows'
<1> SUFFICES ASSUME FileTypes, FilePlaced, FileFollows, [FileNext]_persistVars PROVE FileFollows'
  OBVIOUS
<1> SUFFICES ASSUME up', losses' = {}, ~persistError', ~Awaited'
             PROVE  /\ Snapshotted' => temp' = entries'
                    /\ ~Snapshotted' /\ (flushed' \/ step' = "discard") => Load(primary') = entries'
  BY DEF FileFollows
<1>p. /\ FileTypes /\ FilePlaced /\ MemoryTypes /\ EntryTypes /\ TaskTypes /\ DiskTypes
      /\ Unharmed /\ Unharmed' /\ losses = {} /\ losses' = {}
      /\ up /\ ~persistError /\ ~Awaited =>
             /\ Snapshotted => temp = entries
             /\ ~Snapshotted /\ (flushed \/ step = "discard") => Load(primary) = entries
  <2>1. losses = {}
    BY LossesGrow
  <2>2. Unharmed /\ Unharmed'
    BY <2>1 DEF Unharmed
  <2>3. QED BY <2>1, <2>2 DEF FileTypes, FileFollows
<1> USE DEF memoryVars, diskVars, writerVars, historyVars, counterVars
<1>1. CASE Append1
  <2>0. /\ up /\ appended < MaxEntries /\ appended' = appended + 1
        /\ entries' = Append(entries, appended')
        /\ assistants' \subseteq assistants \cup {appended'} /\ assistants \subseteq assistants'
        /\ UNCHANGED <<up, needsRewrite, ensured, step, requests, deaths>>
    BY <1>1, Appends
  <2>2. appended' \in 1..MaxEntries
    BY <1>p, <2>0, Counted DEF MemoryTypes
  <2>4. CASE persistError /\ persistError' = persistError
    BY <2>4
  <2>5. CASE ~persistError /\ ~Wanted(entries', assistants') /\ DeferredWrite
    BY <1>p, <2>0, <2>5 DEF DeferredWrite, Snapshotted
  <2>6. CASE ~persistError /\ QueuedWrite
    <3>1. Awaited'
      BY <1>p, <2>0, <2>6, AskedIsAwaited, QueueIs DEF QueuedWrite
    <3>2. QED BY <3>1
  <2>7. CASE /\ ~persistError /\ ~needsRewrite /\ flushed /\ writer # "closing"
             /\ HotWrite(appended')
    <3>1. /\ ~Snapshotted /\ Headed(primary)
          /\ Load(primary') = Append(Load(primary), appended')
      BY <1>p, <2>0, <2>2, <2>7, HotAppends
    <3>2. Awaited' <=> Awaited
      BY <2>0, <2>7, SameAwaited DEF HotWrite
    <3>3. Load(primary) = entries
      BY <1>p, <2>0, <2>7, <3>1, <3>2
    <3>4. QED BY <2>0, <3>1, <3>3 DEF Snapshotted
  <2>8. CASE /\ ~persistError /\ ~needsRewrite /\ flushed /\ writer # "closing"
             /\ HotWriteFails(appended')
    BY <2>8 DEF HotWriteFails
  <2>9. QED BY <1>1, <2>4, <2>5, <2>6, <2>7, <2>8, Appends
<1>2. CASE Rewrite
  <2>1. Awaited'
    BY <1>p, <1>2, AskedIsAwaited, QueueIs DEF Rewrite, Request
  <2>2. QED BY <2>1
<1>3. CASE EnsureOnDisk
  <2>1. Awaited'
    BY <1>p, <1>3, AskedIsAwaited, QueueIs DEF EnsureOnDisk, Request
  <2>2. QED BY <2>1
<1>4. CASE up /\ Prune1
  <2>1. Awaited'
    BY <1>p, <1>4, AskedIsAwaited, QueueIs DEF Prune1, Prune, Request
  <2>2. QED BY <2>1
<1>5. CASE Close
  <2>1. Awaited' <=> Awaited
    BY <1>p, <1>5, AskedIsAwaited, QueueIs DEF Close, Request
  <2>2. UNCHANGED <<up, flushed, persistError, step, entries, temp, primary>>
    BY <1>5 DEF Close
  <2>3. up
    BY <1>5 DEF Close, Request
  <2>4. QED BY <1>p, <2>1, <2>2, <2>3 DEF Snapshotted
<1>6. CASE SkipTask
  BY <1>p, <1>6, SameAwaited DEF SkipTask, EndTask, Running, Reading, Snapshotted
<1>7. CASE BeginTask
  BY <1>p, <1>7, SameAwaited DEF BeginTask, Running, Reading, Snapshotted
<1>8. CASE EndClose
  BY <1>p, <1>8, SameAwaited DEF EndClose, Running, Reading, Snapshotted
<1>9. CASE EndCloseTask
  <2>1. Awaited' <=> Awaited
    BY <1>p, <1>9, EndedWasNot DEF EndCloseTask, Running
  <2>2. /\ up /\ flushed /\ step = "snapshot" /\ step' = "idle"
        /\ UNCHANGED <<persistError, entries, temp, primary>>
    BY <1>p, <1>9 DEF EndCloseTask, Running, EndTask
  <2>3. QED BY <1>p, <2>1, <2>2 DEF Snapshotted
<1>10. CASE Snapshot
  BY <1>p, <1>10, SameAwaited DEF Snapshot, Running, Reading, Snapshotted
<1>11. CASE WriteTemp
  <2>1. up /\ step = "write" /\ Snapshotted /\ UNCHANGED <<entries, primary>>
    BY <1>11 DEF WriteTemp, Running, Snapshotted
  <2>3. CASE step' = "replace" /\ UNCHANGED <<chain, temp, persistError>>
    <3>1. Awaited' <=> Awaited
      BY <2>1, <2>3, SameAwaited DEF Reading
    <3>2. QED BY <1>p, <2>1, <2>3, <3>1 DEF Snapshotted
  <2>4. CASE FailTask
    BY <2>4 DEF FailTask
  <2>5. QED BY <1>11, <2>1, <2>3, <2>4 DEF WriteTemp
<1>12. CASE Replace
  <2>1. up /\ step = "replace" /\ Snapshotted /\ chain # <<>> /\ UNCHANGED entries
    BY <1>12 DEF Replace, Running, Snapshotted
  <2>2. CASE /\ primary' = temp /\ persistError' = persistError
             /\ EndRewrite
    <3>1. Awaited' <=> Awaited
      BY <1>p, <2>1, <2>2, EndedWasNot DEF EndRewrite, Reading
    <3>2. temp = entries
      BY <1>p, <2>1, <2>2, <3>1
    <3>3. Load(temp) = temp
      BY <1>p, <2>1, LoadWhole DEF DiskTypes
    <3>4. ~Snapshotted'
      BY <2>2 DEF EndRewrite, EndTask, Snapshotted
    <3>5. QED BY <2>1, <2>2, <3>2, <3>3, <3>4
  <2>3. CASE step' = "aside" /\ UNCHANGED <<chain, temp, persistError>>
    <3>1. Awaited' <=> Awaited
      BY <2>1, <2>3, SameAwaited DEF Reading
    <3>2. QED BY <1>p, <2>1, <2>3, <3>1 DEF Snapshotted
  <2>4. CASE FailTask
    BY <2>4 DEF FailTask
  <2>5. QED BY <1>12, <2>1, <2>2, <2>3, <2>4 DEF Replace
<1>13. CASE Aside
  <2>1. up /\ step = "aside" /\ Snapshotted /\ UNCHANGED entries
    BY <1>13 DEF Aside, Running, Snapshotted
  <2>3. CASE step' \in {"promote", "place"} /\ UNCHANGED <<chain, temp, persistError>>
    <3>1. Awaited' <=> Awaited
      BY <2>1, <2>3, SameAwaited DEF Reading
    <3>2. QED BY <1>p, <2>1, <2>3, <3>1 DEF Snapshotted
  <2>4. CASE FailTask
    BY <2>4 DEF FailTask
  <2>5. QED BY <1>13, <2>1, <2>3, <2>4 DEF Aside, diskVars
<1>14. CASE Place
  <2>1. up /\ step = "place" /\ Snapshotted /\ chain # <<>> /\ UNCHANGED entries
    BY <1>14 DEF Place, Running, Snapshotted
  <2>2. CASE /\ primary' = temp /\ persistError' = persistError
             /\ EndRewrite
    <3>1. Awaited' <=> Awaited
      BY <1>p, <2>1, <2>2, EndedWasNot DEF EndRewrite, Reading
    <3>2. temp = entries
      BY <1>p, <2>1, <2>2, <3>1
    <3>3. Load(temp) = temp
      BY <1>p, <2>1, LoadWhole DEF DiskTypes
    <3>4. ~Snapshotted'
      BY <2>2 DEF EndRewrite, EndTask, Snapshotted
    <3>5. QED BY <2>1, <2>2, <3>2, <3>3, <3>4
  <2>4. CASE FailTask
    BY <2>4 DEF FailTask
  <2>5. QED BY <1>14, <2>1, <2>2, <2>4 DEF Place
<1>15. CASE Promote
  <2>1. up /\ step = "promote" /\ Snapshotted /\ chain # <<>> /\ UNCHANGED entries
    BY <1>15 DEF Promote, Running, Snapshotted
  <2>2. CASE /\ primary' = temp /\ persistError' = persistError
             /\ step' = "discard" /\ chain' = chain
    <3>1. Awaited' <=> Awaited
      BY <1>p, <2>1, <2>2, SameAwaited DEF Reading
    <3>2. temp = entries
      BY <1>p, <2>1, <2>2, <3>1
    <3>3. Load(temp) = temp
      BY <1>p, <2>1, LoadWhole DEF DiskTypes
    <3>4. ~Snapshotted'
      BY <2>2 DEF EndRewrite, EndTask, Snapshotted
    <3>5. QED BY <2>1, <2>2, <3>2, <3>3, <3>4
  <2>3. CASE step' = "rollback" /\ UNCHANGED <<chain, temp, persistError>>
    <3>1. Awaited' <=> Awaited
      BY <2>1, <2>3, SameAwaited DEF Reading
    <3>2. QED BY <1>p, <2>1, <2>3, <3>1 DEF Snapshotted
  <2>4. QED BY <1>15, <2>1, <2>2, <2>3 DEF Promote, memoryVars
<1>16. CASE Rollback
  BY <1>16 DEF Rollback, FailTask
<1>17. CASE Discard
  <2>1. /\ up /\ step = "discard" /\ step' = "idle" /\ EndTask /\ chain # <<>>
        /\ UNCHANGED <<entries, primary, persistError>>
    BY <1>17 DEF Discard, Running, EndRewrite, EndTask
  <2>2. Awaited' <=> Awaited
    BY <1>p, <2>1, EndedWasNot DEF Reading
  <2>3. QED BY <1>p, <2>1, <2>2 DEF Snapshotted
<1>18. CASE Die
  BY <1>p, <1>18, SameAwaited DEF Die, Reading, Snapshotted
<1>19. CASE ResumeListed
  <2>1. step = "idle" /\ step' = step /\ primary' = Scanned /\ entries' = Load(Scanned)
    BY <1>p, <1>19 DEF ResumeListed, LoadFile, TaskTypes
  <2>2. QED BY <2>1 DEF Snapshotted
<1>20. CASE ResumePath
  <2>1. step = "idle" /\ step' = step /\ primary' = primary
    BY <1>p, <1>20 DEF ResumePath, LoadFile, TaskTypes
  <2>2. CASE LoadFile(primary)
    BY <2>1, <2>2 DEF LoadFile, Snapshotted
  <2>3. CASE chain' = <<"ensure">>
    BY <2>1, <2>3, EnsureIsAwaited
  <2>4. QED BY <1>20, <2>2, <2>3 DEF ResumePath
<1>21. CASE UNCHANGED persistVars
  BY <1>p, <1>21, SameAwaited DEF persistVars, Snapshotted
<1>22. QED
  BY <1>1, <1>2, <1>3, <1>4, <1>5, <1>6, <1>7, <1>8, <1>9, <1>10, <1>11, <1>12, <1>13, <1>14, <1>15, <1>16, <1>17, <1>18, <1>19, <1>20, <1>21 DEF FileNext, Work

-----------------------------------------------------------------------------
(* The invariant *)

LEMMA InitialFile == FileInit => FileIInv
<1> SUFFICES ASSUME FileInit PROVE FileIInv
  OBVIOUS
<1>1. MemoryTypes
  <2>1. 0 \in 0..MaxEntries /\ 0 \in 0..MaxRequests /\ 0 \in 0..MaxFaults /\ 0 \in 0..MaxDeaths
    BY PersistenceAssumption
  <2>2. appended = 0 /\ requests = 0 /\ faults = 0 /\ deaths = 0 /\ losses = {}
    BY DEF FileInit
  <2>3. /\ {up, flushed, needsRewrite, ensured, persistError} \subseteq BOOLEAN
        /\ assistants = {}
    BY DEF FileInit
  <2>4. QED BY <2>1, <2>2, <2>3 DEF MemoryTypes
<1>2. EntryTypes
  <2>1. entries = <<Header>> /\ saved = {}
    BY DEF FileInit
  <2>2. QED BY <2>1, WholeHeader, WholeType DEF EntryTypes
<1>3. TaskTypes
  BY QueueIs DEF FileInit, TaskTypes, Steps
<1>4. DiskTypes
  BY NoFileIs DEF FileInit, DiskTypes, Snapshotted
<1>5. FilePlaced
  BY QueueSets DEF FileInit, FilePlaced, TaskTypes, ToSet
<1>6. SavedKept
  BY DEF FileInit, SavedKept, Snapshotted
<1>7. WantedWritten
  BY WholeHeader DEF FileInit, WantedWritten, Wanted
<1>8. FileFollows
  BY DEF FileInit, FileFollows, Snapshotted
<1>9. QED BY <1>1, <1>2, <1>3, <1>4, <1>5, <1>6, <1>7, <1>8 DEF FileIInv, FileTypes

LEMMA FileIInvHolds == FileSpec => []FileIInv
<1>1. FileIInv /\ [FileNext]_persistVars => FileIInv'
  BY FileTypesStep, FilePlacedStep, SavedKeptStep, WantedWrittenStep, FileFollowsStep DEF FileIInv
<1>2. QED BY InitialFile, <1>1, PTL DEF FileSpec

(* Whatever fails and whenever the process dies, an entry the disk has     *)
(* taken can be read by a resume from the list, but for the three races    *)
(* the history names (#replaceSessionFileAfterEperm, session-manager.ts:   *)
(* 2303, recoverOrphanedBackups).                                          *)
THEOREM SavedEntriesRecoverable == FileSpec => []SavedIsRecoverable
<1>1. FileIInv => SavedIsRecoverable
  BY DEF FileIInv, SavedKept, SavedIsRecoverable, Unharmed
<1>2. QED BY FileIInvHolds, <1>1, PTL

(* When the queue of #persistChain is drained and no error is kept, the    *)
(* session file holds exactly the entries in memory; and the types.        *)
THEOREM FileMirrored == FileSpec => []FileInv
<1>1. FileIInv => FileTypeOK
  <2> SUFFICES ASSUME FileIInv PROVE FileTypeOK
    OBVIOUS
  <2>1. MemoryTypes /\ EntryTypes /\ TaskTypes /\ DiskTypes
    BY DEF FileIInv, FileTypes
  <2>2. {flushed, needsRewrite, ensured, persistError} \subseteq BOOLEAN
    BY <2>1 DEF MemoryTypes
  <2>3. (fd = "none") = (writer = "none")
    BY <2>1 DEF TaskTypes
  <2>4. QED BY <2>1, <2>2, <2>3 DEF FileTypeOK, MemoryTypes, EntryTypes, TaskTypes, DiskTypes
<1>2. FileIInv => FileMirrorsMemory
  <2> SUFFICES ASSUME FileIInv, up, losses = {}, ~persistError, chain = <<>>,
                      Wanted(entries, assistants)
               PROVE  Load(primary) = entries
    BY DEF FileMirrorsMemory
  <2>1. step = "idle" /\ ~Snapshotted
    BY DEF FileIInv, FileTypes, TaskTypes, Snapshotted
  <2>2. ~Awaited
    BY DEF Awaited
  <2>3. flushed
    BY <2>1, <2>2 DEF FileIInv, WantedWritten
  <2>4. QED BY <2>1, <2>2, <2>3 DEF FileIInv, FileFollows
<1>3. QED BY FileIInvHolds, <1>1, <1>2, PTL DEF FileInv
=============================================================================
