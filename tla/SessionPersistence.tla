------------------------ MODULE SessionPersistence ------------------------
(***************************************************************************)
(* session/session-manager.ts: how the entries of a session reach its      *)
(* JSONL file.  An entry is pushed to #fileEntries and then either written *)
(* at once through a cached file descriptor (the hot path), or left to a   *)
(* rewrite of the whole file, queued on #persistChain: close the           *)
(* descriptor, snapshot the entries, write a temporary file, rename it     *)
(* over the session file.  Where the rename is refused (EPERM) the session *)
(* file is first renamed to a backup, which a scan of the directory        *)
(* promotes if the process dies before the second rename.                  *)
(*                                                                         *)
(* Each step below is the code between two awaits, so appends come between *)
(* any two steps of a rewrite.  The process may die at any step; what the  *)
(* kernel has taken survives it (no power failure).  One session file; an  *)
(* entry is its number, in the order of the appends.                       *)
(***************************************************************************)
EXTENDS Arrays, SequencesExt

CONSTANTS
    MaxEntries,   \* bound on the entries appended
    MaxRequests,  \* bound on the rewrites asked for by a rename, a compaction, a draft
    MaxFaults,    \* bound on the failures of the file system
    MaxDeaths     \* bound on the deaths of the process

ASSUME PersistenceAssumption ==
    {MaxEntries, MaxRequests, MaxFaults, MaxDeaths} \subseteq Nat

VARIABLES
    up,           \* a process has the session open
    entries,      \* SessionManager#fileEntries, the header first
    assistants,   \* the entries that are assistant messages
    flushed,      \* #flushed
    needsRewrite, \* #needsFullRewriteOnNextPersist
    ensured,      \* #ensuredOnDisk
    persistError, \* #persistError is set
    writer,       \* state of the cached #persistWriter
    fd,           \* the file the descriptor of the writer is on
    chain,        \* tasks of #persistChain, the running one first
    step,         \* how far the running task is
    temp,         \* lines of the temporary file, or of the snapshot for it
    primary,      \* lines of the session file
    backups,      \* lines of the *.bak files, the newest last
    saved,        \* history: entries the disk has taken, less the pruned ones
    losses,       \* history: the ways the code has lost an entry
    appended, requests, faults, deaths  \* counters that bound the behaviours

memoryVars == <<entries, assistants, flushed, needsRewrite, ensured, persistError>>
diskVars == <<temp, primary, backups>>
writerVars == <<writer, fd>>
historyVars == <<saved, losses>>
counterVars == <<appended, requests, faults, deaths>>
persistVars == <<up, memoryVars, writerVars, chain, step, diskVars, historyVars, counterVars>>

(* A line of a file is the header, an entry, a line cut short by a failed  *)
(* write, or the unreadable line made by an append behind such a line.     *)
Header == 0
Torn == -1
Garbled == -2
Lines == {Header, Torn, Garbled} \cup (1..MaxEntries)
NoFile == <<Garbled, Garbled>>

Tasks == {"rewrite", "ensure", "close"}
Steps == {"idle", "closing", "snapshot", "write", "replace", "aside", "place",
          "promote", "rollback", "discard"}
Losses == {"overtaken", "buried", "glued", "forgotten"}

(***************************************************************************)
(* loadEntriesFromFile: unreadable lines are skipped, and a file that does *)
(* not begin with the header has no entries.                               *)
(***************************************************************************)
Load(file) ==
    IF file = NoFile \/ file = <<>> \/ Head(file) # Header THEN <<>>
    ELSE Filtered(file, {i \in DOMAIN file : file[i] >= Header})

(* The line an append leaves at the end of a file.                         *)
WithLine(file, line) ==
    IF file = NoFile THEN <<line>>
    ELSE IF file # <<>> /\ Last(file) = Torn THEN Append(Front(file), Garbled)
    ELSE Append(file, line)

(* recoverOrphanedBackups promotes the newest backup if there is no session file. *)
Scanned == IF primary = NoFile /\ backups # <<>> THEN Last(backups) ELSE primary

(* What a resume of the session from the list would read.                  *)
Recoverable == ToSet(Load(Scanned))

(* Entries are kept in memory until the first answer of the model.         *)
Wanted(es, as) == ensured \/ \E e \in ToSet(es) : e \in as

FileInit ==
    /\ up = TRUE
    /\ entries = <<Header>>
    /\ assistants = {}
    /\ flushed = FALSE
    /\ needsRewrite = FALSE
    /\ ensured = FALSE
    /\ persistError = FALSE
    /\ writer = "none"
    /\ fd = "none"
    /\ chain = <<>>
    /\ step = "idle"
    /\ temp = NoFile
    /\ primary = NoFile
    /\ backups = <<>>
    /\ saved = {}
    /\ losses = {}
    /\ appended = 0
    /\ requests = 0
    /\ faults = 0
    /\ deaths = 0

(* A rewrite has read the entries and has yet to replace the file.         *)
Snapshotted == step \in {"write", "replace", "aside", "place", "promote", "rollback"}

(***************************************************************************)
(* _persist, called by #appendEntry with the entry already in memory.      *)
(***************************************************************************)
(* The entry is left to the next rewrite; one that has read the entries    *)
(* already will mark the session as written without it.                    *)
DeferredWrite ==
    /\ flushed' = FALSE
    /\ losses' = losses \cup {m \in {"forgotten"} : Snapshotted \/ step = "discard"}
    /\ UNCHANGED <<chain, persistError, writerVars, diskVars, saved, faults>>

QueuedWrite ==
    /\ chain' = Append(chain, "rewrite")
    /\ UNCHANGED <<flushed, persistError, writerVars, diskVars, historyVars, faults>>

(* Where the descriptor of the hot path is: #ensurePersistWriter opens the *)
(* session file unless it has a writer.                                    *)
Target == IF writer = "open" THEN fd ELSE "primary"

WriteTo(target, line) ==
    /\ primary' = IF target = "primary" THEN WithLine(primary, line) ELSE primary
    /\ backups' = IF target = "backup"
                  THEN Append(Front(backups), WithLine(Last(backups), line))
                  ELSE backups
    /\ temp' = temp

HotWrite(e) ==
    /\ writer' = "open"
    /\ fd' = Target
    /\ WriteTo(Target, e)
    /\ saved' = saved \cup {e}
    /\ losses' = losses
         \cup {m \in {"overtaken"} : Target # "primary" \/ Snapshotted}
         \cup {m \in {"glued"} : primary # NoFile /\ primary # <<>> /\ Last(primary) = Torn}
    /\ UNCHANGED <<flushed, persistError, chain, faults>>

(* The write fails, and may leave the beginning of the line behind.        *)
HotWriteFails(e) ==
    /\ faults < MaxFaults
    /\ faults' = faults + 1
    /\ writer' = "open"
    /\ fd' = Target
    /\ \/ WriteTo(Target, Torn)
       \/ UNCHANGED diskVars
    /\ losses' = losses \cup {m \in {"overtaken"} : Target # "primary" \/ Snapshotted}
    /\ persistError' = TRUE
    /\ UNCHANGED <<flushed, chain, saved>>

(* Mutant of Persist: an append that meets a closing writer is not queued. *)
PersistUnlessClosing(e, es, as) ==
    IF persistError
    THEN UNCHANGED <<flushed, persistError, chain, writerVars, diskVars, historyVars, faults>>
    ELSE \/ ~Wanted(es, as) /\ DeferredWrite
         \/ Wanted(es, as) /\ (needsRewrite \/ ~flushed) /\ QueuedWrite
         \/ /\ Wanted(es, as) /\ ~needsRewrite /\ flushed /\ writer = "closing"
            /\ UNCHANGED <<flushed, persistError, chain, writerVars, diskVars, historyVars, faults>>
         \/ /\ Wanted(es, as) /\ ~needsRewrite /\ flushed /\ writer # "closing"
            /\ HotWrite(e) \/ HotWriteFails(e)

(* Mutant of Persist: whether the file is up to date is not looked at.     *)
PersistAlwaysHot(e, es, as) ==
    IF persistError
    THEN UNCHANGED <<flushed, persistError, chain, writerVars, diskVars, historyVars, faults>>
    ELSE \/ ~Wanted(es, as) /\ DeferredWrite
         \/ Wanted(es, as) /\ writer = "closing" /\ QueuedWrite
         \/ Wanted(es, as) /\ writer # "closing" /\ (HotWrite(e) \/ HotWriteFails(e))

Persist(e, es, as) ==
    IF persistError
    THEN UNCHANGED <<flushed, persistError, chain, writerVars, diskVars, historyVars, faults>>
    ELSE \/ ~Wanted(es, as) /\ DeferredWrite
         \/ Wanted(es, as) /\ (needsRewrite \/ ~flushed \/ writer = "closing") /\ QueuedWrite
         \/ /\ Wanted(es, as) /\ ~needsRewrite /\ flushed /\ writer # "closing"
            /\ HotWrite(e) \/ HotWriteFails(e)

AppendEntry(byAssistant) ==
    /\ up
    /\ appended < MaxEntries
    /\ appended' = appended + 1
    /\ entries' = Append(entries, appended')
    /\ assistants' = IF byAssistant THEN assistants \cup {appended'} ELSE assistants
    /\ Persist(appended', entries', assistants')
    /\ UNCHANGED <<up, needsRewrite, ensured, step, requests, deaths>>

(***************************************************************************)
(* The operations that ask for a rewrite.                                  *)
(***************************************************************************)
Request(task) ==
    /\ up
    /\ requests < MaxRequests
    /\ requests' = requests + 1
    /\ chain' = Append(chain, task)

(* setSessionName rewrites a file that exists; rewriteEntries rewrites any. *)
Rewrite ==
    /\ Request("rewrite")
    /\ UNCHANGED <<up, memoryVars, writerVars, step, diskVars, historyVars, appended, faults, deaths>>

(* ensureOnDisk, of a new ACP session or of a saved draft.                 *)
EnsureOnDisk ==
    /\ ~flushed \/ needsRewrite
    /\ Request("ensure")
    /\ UNCHANGED <<up, memoryVars, writerVars, step, diskVars, historyVars, appended, faults, deaths>>

(* #releasePostCompactionMemory: what is not on the branch of the last     *)
(* entry is dropped, and the file rewritten.  The parent of an entry may   *)
(* be any earlier one, so any set without the last may be off the branch.  *)
Prune(dead) ==
    /\ dead # {}
    /\ Request("rewrite")
    /\ entries' = Filtered(entries, {i \in DOMAIN entries : entries[i] \notin dead})
    /\ needsRewrite' = TRUE
    /\ saved' = saved \ dead
    /\ UNCHANGED <<up, assistants, flushed, ensured, persistError, writerVars, step,
                   diskVars, losses, appended, faults, deaths>>

(* close, on shutdown of the session.                                      *)
Close ==
    /\ writer # "none"
    /\ Request("close")
    /\ UNCHANGED <<up, memoryVars, writerVars, step, diskVars, historyVars, appended, faults, deaths>>

(***************************************************************************)
(* The tasks of the queue, one at a time.                                  *)
(***************************************************************************)
Running(s) == up /\ chain # <<>> /\ step = s

EndTask ==
    /\ chain' = Tail(chain)
    /\ step' = "idle"

(* A task fails: its error is kept, and every later task throws it.        *)
FailTask ==
    /\ EndTask
    /\ persistError' = TRUE

Fault ==
    /\ faults < MaxFaults
    /\ faults' = faults + 1

(* #queuePersistTask, once an error is kept.                               *)
SkipTask ==
    /\ Running("idle")
    /\ persistError
    /\ EndTask
    /\ UNCHANGED <<up, memoryVars, writerVars, diskVars, historyVars, counterVars>>

(* #closePersistWriterInternal, up to the await of the close.              *)
BeginTask ==
    /\ Running("idle")
    /\ ~persistError
    /\ IF writer = "open"
       THEN writer' = "closing" /\ step' = "closing"
       ELSE UNCHANGED writer /\ step' = "snapshot"
    /\ UNCHANGED <<up, memoryVars, fd, chain, diskVars, historyVars, counterVars>>

EndClose ==
    /\ Running("closing")
    /\ writer' = "none"
    /\ fd' = "none"
    /\ step' = "snapshot"
    /\ UNCHANGED <<up, memoryVars, chain, diskVars, historyVars, counterVars>>

(* The task of close() ends here, and marks the session as written whether *)
(* or not an entry was left to the next rewrite meanwhile.                 *)
EndCloseTask ==
    /\ Running("snapshot")
    /\ Head(chain) = "close"
    /\ EndTask
    /\ flushed' = TRUE
    /\ losses' = losses \cup {m \in {"forgotten"} : ~flushed}
    /\ UNCHANGED <<up, entries, assistants, needsRewrite, ensured, persistError, writerVars,
                   diskVars, saved, counterVars>>

Snapshot ==
    /\ Running("snapshot")
    /\ Head(chain) # "close"
    /\ temp' = entries
    /\ step' = "write"
    /\ UNCHANGED <<up, memoryVars, writerVars, chain, primary, backups, historyVars, counterVars>>

(* #writeEntriesAtomically up to the rename, or its catch.                 *)
WriteTemp ==
    /\ Running("write")
    /\ \/ step' = "replace" /\ UNCHANGED <<temp, chain, persistError, faults>>
       \/ Fault /\ FailTask /\ temp' = NoFile
    /\ UNCHANGED <<up, entries, assistants, flushed, needsRewrite, ensured, writerVars,
                   primary, backups, historyVars, appended, requests, deaths>>

(* The end of #rewriteFile, and of the ensureOnDisk that awaits it.        *)
EndRewrite ==
    /\ EndTask
    /\ flushed' = TRUE
    /\ needsRewrite' = FALSE
    /\ ensured' = (ensured \/ Head(chain) = "ensure")

(* A descriptor follows its file, also when the file is renamed or gone.   *)
FollowTo(place) == IF fd = "primary" THEN place ELSE fd

(* The disk has taken what is in the new file and still in memory.         *)
Taken == (ToSet(temp) \cap ToSet(entries)) \ {Header}

(* The rename of the temporary file over the session file: done, refused,  *)
(* or failed.                                                              *)
Replace ==
    /\ Running("replace")
    /\ \/ /\ primary' = temp
          /\ temp' = NoFile
          /\ fd' = FollowTo("gone")
          /\ saved' = saved \cup Taken
          /\ EndRewrite
          /\ UNCHANGED <<persistError, faults>>
       \/ /\ Fault
          /\ step' = "aside"
          /\ UNCHANGED <<chain, primary, temp, fd, saved, flushed, needsRewrite, ensured, persistError>>
       \/ /\ Fault
          /\ FailTask
          /\ temp' = NoFile
          /\ UNCHANGED <<primary, fd, saved, flushed, needsRewrite, ensured>>
    /\ UNCHANGED <<up, entries, assistants, writer, backups, losses, appended, requests, deaths>>

(***************************************************************************)
(* #replaceSessionFileAfterEperm                                           *)
(***************************************************************************)
(* Mutant of Aside: the session file is removed instead of set aside.      *)
AsideRemoved ==
    /\ Running("aside")
    /\ primary' = NoFile
    /\ fd' = FollowTo("gone")
    /\ step' = "place"
    /\ UNCHANGED <<up, memoryVars, writer, chain, temp, backups, historyVars, counterVars>>

Aside ==
    /\ Running("aside")
    /\ \/ /\ primary # NoFile
          /\ primary' = NoFile
          /\ backups' = Append(backups, primary)
          /\ fd' = FollowTo("backup")
          /\ step' = "promote"
          /\ UNCHANGED <<temp, chain, persistError, faults>>
       \/ /\ primary = NoFile
          /\ step' = "place"
          /\ UNCHANGED <<diskVars, fd, chain, persistError, faults>>
       \/ /\ Fault
          /\ FailTask
          /\ temp' = NoFile
          /\ UNCHANGED <<primary, backups, fd>>
    /\ UNCHANGED <<up, entries, assistants, flushed, needsRewrite, ensured, writer, historyVars,
                   appended, requests, deaths>>

(* There was no session file to set aside.                                 *)
Place ==
    /\ Running("place")
    /\ temp' = NoFile
    /\ \/ /\ primary' = temp
          /\ fd' = FollowTo("gone")
          /\ saved' = saved \cup Taken
          /\ EndRewrite
          /\ UNCHANGED <<persistError, faults>>
       \/ /\ Fault
          /\ FailTask
          /\ UNCHANGED <<primary, fd, saved, flushed, needsRewrite, ensured>>
    /\ UNCHANGED <<up, entries, assistants, writer, backups, losses, appended, requests, deaths>>

Promote ==
    /\ Running("promote")
    /\ \/ /\ primary' = temp
          /\ temp' = NoFile
          /\ fd' = FollowTo("gone")
          /\ saved' = saved \cup Taken
          /\ step' = "discard"
          /\ UNCHANGED faults
       \/ /\ Fault
          /\ step' = "rollback"
          /\ UNCHANGED <<primary, temp, fd, saved>>
    /\ UNCHANGED <<up, memoryVars, writer, chain, backups, losses, appended, requests, deaths>>

(* The backup goes back; if that fails too it stays for the next scan.     *)
Rollback ==
    /\ Running("rollback")
    /\ FailTask
    /\ temp' = NoFile
    /\ \/ /\ primary' = Last(backups)
          /\ backups' = Front(backups)
          /\ fd' = CASE fd = "backup" -> "primary" [] fd = "primary" -> "gone" [] OTHER -> fd
          /\ UNCHANGED faults
       \/ Fault /\ UNCHANGED <<primary, backups, fd>>
    /\ UNCHANGED <<up, entries, assistants, flushed, needsRewrite, ensured, writer, historyVars,
                   appended, requests, deaths>>

Discard ==
    /\ Running("discard")
    /\ EndRewrite
    /\ \/ /\ backups' = Front(backups)
          /\ fd' = IF fd = "backup" THEN "gone" ELSE fd
          /\ UNCHANGED faults
       \/ Fault /\ UNCHANGED <<backups, fd>>
    /\ UNCHANGED <<up, entries, assistants, persistError, writer, primary, temp, historyVars,
                   appended, requests, deaths>>

(***************************************************************************)
(* The process dies; a temporary file it leaves is never read.             *)
(***************************************************************************)
Die ==
    /\ up
    /\ deaths < MaxDeaths
    /\ deaths' = deaths + 1
    /\ up' = FALSE
    /\ entries' = <<>>
    /\ assistants' = {}
    /\ flushed' = FALSE
    /\ needsRewrite' = FALSE
    /\ ensured' = FALSE
    /\ persistError' = FALSE
    /\ writer' = "none"
    /\ fd' = "none"
    /\ chain' = <<>>
    /\ step' = "idle"
    /\ temp' = NoFile
    /\ UNCHANGED <<primary, backups, historyVars, appended, requests, faults>>

(* setSessionFile of a file with entries.  An assistant message is not     *)
(* looked for any more: the session is on disk.                            *)
LoadFile(file) ==
    /\ Load(file) # <<>>
    /\ up' = TRUE
    /\ entries' = Load(file)
    /\ flushed' = TRUE
    /\ ensured' = TRUE
    /\ UNCHANGED <<assistants, needsRewrite, persistError, writerVars, chain, step, temp, counterVars>>

(* The session is chosen from the list, whose scan promotes a backup; the  *)
(* promotion may fail, and is then left to the next scan.                  *)
ResumeListed ==
    /\ ~up
    /\ primary' = Scanned
    /\ backups' = IF Scanned # primary THEN Front(backups) ELSE backups
    /\ LoadFile(Scanned)
    /\ UNCHANGED historyVars

(* SessionManager.open of an explicit path: no scan.  Without entries the  *)
(* file is written anew, and nothing recovers the backup any more.         *)
ResumePath ==
    /\ ~up
    /\ \/ /\ LoadFile(primary)
          /\ UNCHANGED <<primary, backups, historyVars>>
       \/ /\ Load(primary) = <<>>
          /\ up' = TRUE
          /\ entries' = <<Header>>
          /\ chain' = <<"ensure">>
          /\ losses' = losses \cup {m \in {"buried"} : Recoverable # {}}
          /\ UNCHANGED <<assistants, flushed, needsRewrite, ensured, persistError, writerVars,
                         step, temp, primary, backups, saved, counterVars>>

Append1 == \E byAssistant \in BOOLEAN : AppendEntry(byAssistant)
Prune1 == \E dead \in SUBSET (ToSet(Front(entries)) \ {Header}) : Prune(dead)

Work == \/ SkipTask \/ BeginTask \/ EndClose \/ EndCloseTask \/ Snapshot \/ WriteTemp
        \/ Replace \/ Aside \/ Place \/ Promote \/ Rollback \/ Discard

FileNext ==
    \/ Append1
    \/ Rewrite
    \/ EnsureOnDisk
    \/ up /\ Prune1
    \/ Close
    \/ Work
    \/ Die
    \/ ResumeListed
    \/ ResumePath

(* The event loop runs the tasks of the queue; nobody has to append, and   *)
(* the file system answers.                                                *)
FileSpec == FileInit /\ [][FileNext]_persistVars /\ WF_persistVars(Work)

-----------------------------------------------------------------------------
FileTypeOK ==
    /\ up \in BOOLEAN
    /\ entries \in Seq(Lines)
    /\ assistants \subseteq 1..MaxEntries
    /\ {flushed, needsRewrite, ensured, persistError} \subseteq BOOLEAN
    /\ writer \in {"none", "open", "closing"}
    /\ fd \in {"none", "primary", "backup", "gone"}
    /\ (fd = "none") = (writer = "none")
    /\ chain \in Seq(Tasks)
    /\ step \in Steps
    /\ step # "idle" => chain # <<>>
    /\ {temp, primary} \subseteq Seq(Lines)
    /\ backups \in Seq(Seq(Lines))
    /\ saved \subseteq 1..MaxEntries
    /\ losses \subseteq Losses
    /\ appended \in 0..MaxEntries
    /\ requests \in 0..MaxRequests
    /\ faults \in 0..MaxFaults
    /\ deaths \in 0..MaxDeaths

(* An entry the disk has taken can be read by a resume from the list, at   *)
(* every step of a rewrite and of its fallback, whatever fails and         *)
(* whenever the process dies, but for three losses: a hot append while a   *)
(* rewrite has the entries already, a resume by path that starts anew over *)
(* a backup, an append behind a line cut short.                            *)
SavedIsRecoverable ==
    losses \cap {"overtaken", "buried", "glued"} = {} => saved \subseteq Recoverable

(* When the queue is drained and no error is kept, the session file holds  *)
(* exactly the entries in memory, in their order: none twice, no pruned    *)
(* entry left, none missing, but for those losses and an entry that was    *)
(* left to the next rewrite and forgotten by a close or by the rewrite     *)
(* that was under way (session-manager.ts:2426, 2391).                     *)
FileMirrorsMemory ==
    (/\ up /\ losses = {} /\ ~persistError /\ chain = <<>>
     /\ Wanted(entries, assistants))
    => Load(primary) = entries

(* The types, and a file that holds what memory does when all is drained.  *)
FileInv == FileTypeOK /\ FileMirrorsMemory

(* An entry that the session is to keep is on disk in the end, or an error *)
(* is kept, or the process died first.                                     *)
EntryPersisted ==
    \A e \in 1..MaxEntries :
        (up /\ e \in ToSet(entries) /\ Wanted(entries, assistants))
        ~> (\/ e \in Recoverable
            \/ persistError
            \/ e \notin ToSet(entries)
            \/ losses # {})

(* What the code says of the hot path (session-manager.ts:2697): the entry *)
(* survives a kill that comes immediately after the call.  It does not     *)
(* while a rewrite that has read the entries has yet to replace the file,  *)
(* and the writer stays on the replaced file ever after.                   *)
HotAppendSurvives ==
    "buried" \notin losses /\ "glued" \notin losses => saved \subseteq Recoverable

(* The same of a resume by path after a death between the two renames of   *)
(* the fallback: the session starts empty, and the backup stays behind.    *)
BackupSurvives ==
    "overtaken" \notin losses /\ "glued" \notin losses => saved \subseteq Recoverable

(* And of the first append behind a line that a failed write cut short.    *)
AppendAfterTornLine ==
    "overtaken" \notin losses /\ "buried" \notin losses => saved \subseteq Recoverable
=============================================================================
